---- MODULE Spec2Model ----
(***************************************************************************)
(* TreeDetect: the tile pipeline of analysis_pipeline.py and the raster    *)
(* cache of input_utils.py, as a state machine.                            *)
(*                                                                         *)
(* Storage is the session folder: the per-layer raster cache files, the    *)
(* per-tile result files and the csv tables of the base folder.  A run of  *)
(* analysis_pipeline is StartRun, one ProcessTile per loop iteration and   *)
(* FinishRun (Spec); CallLoadData is load_data called on its own           *)
(* (SpecLoad).  SpecRetry, SpecRedoOff and SpecClients are the same runs   *)
(* under other settings: three runs that follow the retry table, runs with *)
(* redo_if_already_processed off, runs over every api table.  SpecTiling   *)
(* is initialize_analysis: check_bbox and cut_up_bbox of                   *)
(* coordinate_utils.py.  Everything the environment decides (what a raster *)
(* source returns, whether a write fails, what the user put in a to-do     *)
(* table) is an input drawn from a small set.                              *)
(***************************************************************************)
EXTENDS Integers, Sequences, FiniteSets, TLC

VARIABLES
    settings,      \* the settings dictionary of the session
    cache,         \* the raster cache files: <<layer, filename>> -> raster
    results,       \* the result files: <<filename, format>> -> blobs
    csv,           \* the csv tables of the base folder: failed.csv, todo.csv
    pc,            \* where analysis_pipeline is: idle, loop, returned, raised
    error,         \* the exception analysis_pipeline raised
    todo,          \* the todo argument of the run
    total,         \* the row indices the loop goes over
    done,          \* iterations completed
    succeeded,     \* the succeeded list
    failed,        \* the failed list
    data_getters,  \* the api keys that have a client
    runs,          \* calls made so far in this session folder
    todoRead,      \* history: the to-do table as the run read it
    attempts,      \* history: one record per loop iteration of the run
    prevFailed,    \* history: the failed list of the last run that ended its loop
    lastLoad,      \* history: the last direct load_data call
    storedOnce,    \* history: tiles some load_data call fetched, saved and returned
    tiling,        \* initialize_analysis: its arguments, its position, what it computed
    sessions,      \* the session folders under data/: param_str -> coord.csv, settings.yml
    detect,        \* a call of a function of the detection: its arguments and result
    full,          \* results/full.csv: the rows it holds and the run it was made after
    workers        \* the iterations of tiles run side by side: where each one is

vars == <<settings, cache, results, csv, pc, error, todo, total, done, succeeded,
          failed, data_getters, runs, todoRead, attempts, prevFailed, lastLoad,
          storedOnce, tiling, sessions, detect, full, workers>>

(***************************************************************************)
(* Bounds of the model.                                                    *)
(***************************************************************************)
\* rows of the tile grid (steps_vertical of a one-column grid)
NumRows == 3
\* distinct raster contents a raster source can return
NumRasters == 1
\* rows of a user-supplied to-do table
MaxTodoRows == 2
\* analysis_pipeline runs in one session folder
MaxRuns == 2
\* direct load_data calls in one session folder
MaxLoads == 2
\* analysis_pipeline runs in one session folder when only the retry table is followed
MaxRetryRuns == 3
\* the largest crown radius, radius step and pixel size, in metres
MaxRadius == 8
MaxStepRadius == 3
MaxPixelSize == 7

\* the largest pixel value, of either sign, calculate_ndvi is called with
MaxReflectance == 5

\* the largest im_size_out (pixels of a tile side) of a tiling
MaxImSize == 3

(***************************************************************************)
(* Helpers on sequences.                                                   *)
(***************************************************************************)
Range(s) == {s[i] : i \in 1..Len(s)}

SeqsUpTo(S, n) == UNION {[1..k -> S] : k \in 0..n}

\* the empty dictionary {}
EmptyDict == [k \in {} |-> 0]

NoFile == "no file"

(***************************************************************************)
(* coordinate_utils.py.  Angles are in degrees.  A distance is in degrees   *)
(* of arc of the great circle, the unit in which haversine's                *)
(* c * radius_of_earth is c itself, and pixel_size is in the same unit per  *)
(* pixel.  math.sin, math.cos, math.asin and math.sqrt are tabulated at the *)
(* angles where the values haversine combines are rational; the inputs are  *)
(* drawn from the boxes for which every lookup is in its table.             *)
(***************************************************************************)
Abs(x) == IF x < 0 THEN -x ELSE x

\* 4 * math.sin(d / 2) ** 2, d in degrees
SinHalfSq4 == (0 :> 0) @@ (60 :> 1) @@ (90 :> 2) @@ (120 :> 3) @@ (180 :> 4)

\* 2 * math.cos(lat), lat in degrees
Cos2 == (-60 :> 1) @@ (0 :> 2) @@ (60 :> 1)

\* 2 * math.asin(math.sqrt(a)) in degrees, by 16 * a
TwoAsinSqrt16 == (0 :> 0) @@ (4 :> 60) @@ (8 :> 90) @@ (12 :> 120) @@ (16 :> 180)

\* 16 * a of haversine, lines 36-39
haversine_a16(lon1, lat1, lon2, lat2) ==
    LET dlon == lon2 - lon1
        dlat == lat2 - lat1
    IN  4 * SinHalfSq4[Abs(dlat)] + Cos2[lat1] * Cos2[lat2] * SinHalfSq4[Abs(dlon)]

\* haversine: the distance between two lon/lat coordinates
haversine(lon1, lat1, lon2, lat2) ==
    LET c == TwoAsinSqrt16[haversine_a16(lon1, lat1, lon2, lat2)]
        dist == c
    IN  dist

\* haversine_inv: the coordinate dx, dy away from lon1, lat1; the longitude
\* step is dx divided by cos(lat1)
haversine_inv(lon1, lat1, dx, dy) ==
    LET lon2 == lon1 + (2 * dx) \div Cos2[lat1]
        lat2 == lat1 + dy
    IN  <<lon2, lat2>>

\* float('nan') as a coordinate: a value no table holds, for which every
\* comparison is False and which every arithmetic operation hands on
nan == 999

\* x < y of two floats
Less(x, y) == x # nan /\ y # nan /\ x < y

\* mutant: the latitudes are not put in order
check_bbox_lon_only(bbox) ==
    LET lon1 == bbox[1]
        lat1 == bbox[2]
        lon2 == bbox[3]
        lat2 == bbox[4]
        lonA == IF Less(lon2, lon1) THEN lon2 ELSE lon1
        lonB == IF Less(lon2, lon1) THEN lon1 ELSE lon2
        bbox_corrected == <<lonA, lat1, lonB, lat2>>
    IN  bbox_corrected

\* check_bbox: the two longitudes and the two latitudes from low to high
check_bbox(bbox) ==
    LET lon1 == bbox[1]
        lat1 == bbox[2]
        lon2 == bbox[3]
        lat2 == bbox[4]
        lonA == IF Less(lon2, lon1) THEN lon2 ELSE lon1
        lonB == IF Less(lon2, lon1) THEN lon1 ELSE lon2
        latA == IF Less(lat2, lat1) THEN lat2 ELSE lat1
        latB == IF Less(lat2, lat1) THEN lat1 ELSE lat2
        bbox_corrected == <<lonA, latA, lonB, latB>>
    IN  bbox_corrected

\* np.ceil(n / d) for n >= 0 and d > 0
Ceil(n, d) == (n + d - 1) \div d

Digit == <<"0", "1", "2", "3", "4", "5", "6", "7", "8", "9">>

\* str(n) of '{0}'.format(n), n >= 0
RECURSIVE str(_)
str(n) == IF n < 10 THEN Digit[n + 1] ELSE str(n \div 10) \o Digit[(n % 10) + 1]

\* mutant: the row index first
fname_row_col(i, j) == str(j) \o "_" \o str(i)

\* '{0}_{1}'.format(i, j)
fname(i, j) == str(i) \o "_" \o str(j)

\* lines 183-197: the inner loop of column i from row j on
RECURSIVE column_rows(_, _, _, _, _, _, _)
column_rows(i, j, steps_vertical, lon, lon_new, lat1, stepsize_lat) ==
    IF j >= steps_vertical THEN <<>>
    ELSE LET lat == lat1 + j * stepsize_lat
             lat_new == lat + stepsize_lat
         IN  <<[filename |-> fname(i, j), lon_min |-> lon, lat_min |-> lat,
                lon_max |-> lon_new, lat_max |-> lat_new]>>
                \o column_rows(i, j + 1, steps_vertical, lon, lon_new, lat1, stepsize_lat)

\* lines 178-197: the outer loop from column i on
RECURSIVE grid_columns(_, _, _, _, _, _, _)
grid_columns(i, steps_horizontal, steps_vertical, lon1, lat1, stepsize_lon, stepsize_lat) ==
    IF i >= steps_horizontal THEN <<>>
    ELSE LET lon == lon1 + i * stepsize_lon
             lon_new == lon + stepsize_lon
         IN  column_rows(i, 0, steps_vertical, lon, lon_new, lat1, stepsize_lat)
                \o grid_columns(i + 1, steps_horizontal, steps_vertical,
                                lon1, lat1, stepsize_lon, stepsize_lat)

\* lines 133-151: the number of tile rows and of tile columns
steps_vertical_of(bbox_full, im_size_out, pixel_size) ==
    LET map_height_meter == haversine(bbox_full[1], bbox_full[2], bbox_full[1], bbox_full[4])
    IN  Ceil(map_height_meter, pixel_size * im_size_out)

steps_horizontal_of(bbox_full, im_size_out, pixel_size) ==
    LET map_width_meter == haversine(bbox_full[1], bbox_full[2], bbox_full[3], bbox_full[2])
    IN  Ceil(map_width_meter, pixel_size * im_size_out)

\* cut_up_bbox: returns coord_df (one row per tile) and total_bounding_box
cut_up_bbox(bbox_full, im_size_out, pixel_size) ==
    LET steps_vertical == steps_vertical_of(bbox_full, im_size_out, pixel_size)
        steps_horizontal == steps_horizontal_of(bbox_full, im_size_out, pixel_size)
        lon1 == bbox_full[1]
        lat1 == bbox_full[2]
        second == haversine_inv(lon1, lat1, im_size_out * pixel_size,
                                im_size_out * pixel_size)
        final == haversine_inv(lon1, lat1, im_size_out * pixel_size * steps_horizontal,
                               im_size_out * pixel_size * steps_vertical)
        stepsize_lon == second[1] - lon1
        stepsize_lat == second[2] - lat1
    IN  [coord_df |-> grid_columns(0, steps_horizontal, steps_vertical,
                                   lon1, lat1, stepsize_lon, stepsize_lat),
         total_bounding_box |-> <<lon1, lat1, final[1], final[2]>>]

\* the 'filename' column of the grid table of the session: one column of
\* NumRows tiles
coord_df ==
    LET rows == grid_columns(0, 1, NumRows, 0, 0, 1, 1) IN
    [k \in 1..Len(rows) |-> rows[k].filename]

Filenames == Range(coord_df)

\* an id no grid of this size holds
ForeignId == "9_9"

(***************************************************************************)
(* Settings: settings['data']['api'] in its dictionary order, and the      *)
(* switches of settings['general'] and settings['scale_space'].            *)
(***************************************************************************)
LayerOrder == <<"rgb", "nir">>
Layers == Range(LayerOrder)
ServiceTypes == {"WebMapService", "WebCoverageService"}
Formats == {"csv", "txt"}
RasterNames == <<"raster a", "raster b", "raster c", "raster d">>
Rasters == {RasterNames[i] : i \in 1..NumRasters}

\* the api keys in use, in dictionary order
Enabled(sett) == SelectSeq(LayerOrder, LAMBDA l : sett.api[l].use)
EnabledSet(sett) == Range(Enabled(sett))

(***************************************************************************)
(* input_utils.py                                                          *)
(***************************************************************************)
\* images_already_saved: a cached file exists for every api in use
images_already_saved(cch, filename, sett) ==
    \A l \in Layers : sett.api[l].use => cch[<<l, filename>>] # NoFile

\* get_images_from_hard_drive(folders, settings, filename, use_wms): four
\* required parameters; its body starts with folders.item(), which no
\* dictionary has.  Either way the call raises.
get_images_from_hard_drive(args) ==
    IF Len(args) # Len(<<"folders", "settings", "filename", "use_wms">>)
    THEN [raised |-> TRUE, images |-> EmptyDict]
    ELSE [raised |-> TRUE, images |-> EmptyDict]

\* get_images_from_wms_service: one getmap per client in use, in order; a
\* client of another service type raises ValueError, and so does the first
\* request that fails.  fetched[l] is what the source of l answers.
IsWms(sett, l) == sett.api[l].servicetype = "WebMapService"

FirstBad(keys, sett, fetched) ==
    LET Bad(i) == ~IsWms(sett, keys[i]) \/ fetched[keys[i]] = "err" IN
    IF \E i \in 1..Len(keys) : Bad(i)
    THEN CHOOSE i \in 1..Len(keys) : Bad(i) /\ \A j \in 1..(i - 1) : ~Bad(j)
    ELSE 0

get_images_from_wms_service(wmses, sett, fetched) ==
    LET keys == SelectSeq(wmses, LAMBDA l : sett.api[l].use)
        bad == FirstBad(keys, sett, fetched)
    IN  IF bad = 0
        THEN [raised |-> FALSE,
              images |-> [l \in Range(keys) |-> fetched[l]],
              getmap |-> Range(keys)]
        ELSE [raised |-> TRUE,
              images |-> EmptyDict,
              getmap |-> {keys[i] : i \in 1..bad} \cap {l \in Layers : IsWms(sett, l)}]

\* mutant: the file path holds the layer and no filename, so the tiles share
\* one file per layer
save_images_one_path(images, cch, filename, saveFailAt) ==
    LET keys == SelectSeq(LayerOrder, LAMBDA l : l \in DOMAIN images)
        fails == saveFailAt \in 1..Len(keys)
        n == IF fails THEN saveFailAt - 1 ELSE Len(keys)
        written == {keys[i] : i \in 1..n}
    IN  [raised |-> fails,
         cache |-> [p \in DOMAIN cch |->
                      IF p[1] \in written THEN images[p[1]] ELSE cch[p]]]

\* save_images: one imsave per image, in dictionary order; saveFailAt = k > 0
\* makes the k-th write raise, the files written before it stay.
save_images(images, cch, filename, saveFailAt) ==
    LET keys == SelectSeq(LayerOrder, LAMBDA l : l \in DOMAIN images)
        fails == saveFailAt \in 1..Len(keys)
        n == IF fails THEN saveFailAt - 1 ELSE Len(keys)
        written == {keys[i] : i \in 1..n}
    IN  [raised |-> fails,
         cache |-> [p \in DOMAIN cch |->
                      IF p[2] = filename /\ p[1] \in written
                      THEN images[p[1]] ELSE cch[p]]]

\* mutant: the images dictionary is filled in place, so a failed request
\* leaves the rasters fetched before it in the returned dictionary
fetch_and_save_partial(cch, sett, filename, wmses, fetched, saveFailAt) ==
    LET f == get_images_from_wms_service(wmses, sett, fetched) IN
    IF f.raised
    THEN [images |-> [l \in {k \in f.getmap : fetched[k] # "err"} |-> fetched[l]],
          status |-> "load_fail", cache |-> cch, getmap |-> f.getmap, disk |-> FALSE]
    ELSE IF sett.save_wms
         THEN LET s == save_images(f.images, cch, filename, saveFailAt) IN
              [images |-> f.images,
               status |-> IF s.raised THEN "load_fail" ELSE "loaded",
               cache |-> s.cache, getmap |-> f.getmap, disk |-> FALSE]
         ELSE [images |-> f.images, status |-> "loaded", cache |-> cch,
               getmap |-> f.getmap, disk |-> FALSE]

\* mutant: the status is set before save_images is called, so a save that
\* raises after it leaves 'loaded'
fetch_and_save_status_first(cch, sett, filename, wmses, fetched, saveFailAt) ==
    LET f == get_images_from_wms_service(wmses, sett, fetched) IN
    IF f.raised
    THEN [images |-> EmptyDict, status |-> "load_fail", cache |-> cch,
          getmap |-> f.getmap, disk |-> FALSE]
    ELSE IF sett.save_wms
         THEN LET s == save_images(f.images, cch, filename, saveFailAt) IN
              [images |-> f.images, status |-> "loaded",
               cache |-> s.cache, getmap |-> f.getmap, disk |-> FALSE]
         ELSE [images |-> f.images, status |-> "loaded", cache |-> cch,
               getmap |-> f.getmap, disk |-> FALSE]

\* mutant: save_images is called whatever the caching switch says
fetch_and_save_always(cch, sett, filename, wmses, fetched, saveFailAt) ==
    LET f == get_images_from_wms_service(wmses, sett, fetched) IN
    IF f.raised
    THEN [images |-> EmptyDict, status |-> "load_fail", cache |-> cch,
          getmap |-> f.getmap, disk |-> FALSE]
    ELSE LET s == save_images(f.images, cch, filename, saveFailAt) IN
         [images |-> f.images,
          status |-> IF s.raised THEN "load_fail" ELSE "loaded",
          cache |-> s.cache, getmap |-> f.getmap, disk |-> FALSE]

\* lines 52-60: fetch every layer in use, save the rasters if caching is on
fetch_and_save(cch, sett, filename, wmses, fetched, saveFailAt) ==
    LET f == get_images_from_wms_service(wmses, sett, fetched) IN
    IF f.raised
    THEN [images |-> EmptyDict, status |-> "load_fail", cache |-> cch,
          getmap |-> f.getmap, disk |-> FALSE]
    ELSE IF sett.save_wms
         THEN LET s == save_images(f.images, cch, filename, saveFailAt) IN
              [images |-> f.images,
               status |-> IF s.raised THEN "load_fail" ELSE "loaded",
               cache |-> s.cache, getmap |-> f.getmap, disk |-> FALSE]
         ELSE [images |-> f.images, status |-> "loaded", cache |-> cch,
               getmap |-> f.getmap, disk |-> FALSE]

\* mutant: 'if' in place of 'elif', a failed disk read goes on to the sources
load_data_fall_through(cch, sett, filename, wmses, fetched, saveFailAt) ==
    IF sett.save_wms /\ images_already_saved(cch, filename, sett)
    THEN LET r == get_images_from_hard_drive(<<"folders", "settings", filename>>) IN
         IF r.raised
         THEN fetch_and_save(cch, sett, filename, wmses, fetched, saveFailAt)
         ELSE [images |-> r.images, status |-> "loaded", cache |-> cch,
               getmap |-> {}, disk |-> TRUE]
    ELSE fetch_and_save(cch, sett, filename, wmses, fetched, saveFailAt)

\* mutant: the disk cache is read as soon as one layer in use is cached
load_data_any_cached(cch, sett, filename, wmses, fetched, saveFailAt) ==
    IF sett.save_wms /\ (\E l \in Layers : sett.api[l].use /\ cch[<<l, filename>>] # NoFile)
    THEN LET r == get_images_from_hard_drive(<<"folders", "settings", filename>>) IN
         IF r.raised
         THEN [images |-> EmptyDict, status |-> "retry", cache |-> cch,
               getmap |-> {}, disk |-> TRUE]
         ELSE [images |-> r.images, status |-> "loaded", cache |-> cch,
               getmap |-> {}, disk |-> TRUE]
    ELSE fetch_and_save(cch, sett, filename, wmses, fetched, saveFailAt)

\* load_data: the disk cache if caching is on and every layer in use is
\* cached, else (elif) the raster sources.  Returns (images, status); cache
\* is the cache as the call leaves it, getmap the layers requested remotely,
\* disk whether the disk branch was taken.
load_data(cch, sett, filename, wmses, fetched, saveFailAt) ==
    LET save_wms_data_to_hard_drive == sett.save_wms IN
    IF save_wms_data_to_hard_drive /\ images_already_saved(cch, filename, sett)
    THEN LET r == get_images_from_hard_drive(<<"folders", "settings", filename>>) IN
         IF r.raised
         THEN [images |-> EmptyDict, status |-> "retry", cache |-> cch,
               getmap |-> {}, disk |-> TRUE]
         ELSE [images |-> r.images, status |-> "loaded", cache |-> cch,
               getmap |-> {}, disk |-> TRUE]
    ELSE fetch_and_save(cch, sett, filename, wmses, fetched, saveFailAt)

(***************************************************************************)
(* The csv tables of the base folder.  A table that parses is the sequence *)
(* of its 'filename' column.                                               *)
(***************************************************************************)
Missing == [kind |-> "missing", rows |-> <<>>]
Unreadable == [kind |-> "unreadable", rows |-> <<>>]
NoColumn == [kind |-> "no filename column", rows |-> <<>>]
Table(rows) == [kind |-> "table", rows |-> rows]

None == "None"
NoIndices == [is_none |-> TRUE, indices |-> <<>>]

\* coord_df.index[coord_df['filename'] == try_el].tolist()[0]
IndexOf(coord, el) == CHOOSE i \in 1..Len(coord) :
                          /\ coord[i] = el
                          /\ \A j \in 1..(i - 1) : coord[j] # el

RECURSIVE todo_indices(_, _)
todo_indices(coord, table) ==
    IF table = <<>> THEN <<>>
    ELSE LET try_el == Head(table) IN
         (IF try_el \in Range(coord) THEN <<IndexOf(coord, try_el)>> ELSE <<>>)
            \o todo_indices(coord, Tail(table))

\* mutant: no membership test, so an id that is not in the grid raises
\* IndexError and the whole table is dropped
get_todo_filenames_unchecked(coord, content) ==
    IF content.kind # "table" \/ Len(content.rows) = 0 THEN NoIndices
    ELSE IF \E i \in 1..Len(content.rows) : content.rows[i] \notin Range(coord)
    THEN NoIndices
    ELSE [is_none |-> FALSE, indices |-> todo_indices(coord, content.rows)]

\* get_todo_filenames: None for a file that does not exist (the function
\* falls off its end), cannot be read, has no filename column or no rows;
\* else the grid index of every listed id that is in the grid, in table order.
get_todo_filenames(coord, content) ==
    IF content = Missing THEN NoIndices
    ELSE IF content = Unreadable THEN NoIndices
    ELSE IF content = NoColumn \/ Len(content.rows) = 0 THEN NoIndices
    ELSE [is_none |-> FALSE, indices |-> todo_indices(coord, content.rows)]

(***************************************************************************)
(* scale_space_tree_detection.py                                           *)
(***************************************************************************)
\* the blobs computed from the near-infrared raster
blobs_of(nir_img) == "blobs of " \o nir_img

\* scale_space_tree_detect: returns None when the tile has a .csv result and
\* redo is off; reads images['nir'] (KeyError without it); the detection or
\* the write of the result file may raise (outcome).
scale_space_tree_detect(images, res, sett, filename, outcome) ==
    IF ~sett.redo /\ res[<<filename, "csv">>] # NoFile
    THEN [raised |-> FALSE, results |-> res, detected |-> FALSE]
    ELSE IF "nir" \notin DOMAIN images
    THEN [raised |-> TRUE, results |-> res, detected |-> FALSE]
    ELSE IF outcome = "detect_error"
    THEN [raised |-> TRUE, results |-> res, detected |-> TRUE]
    ELSE IF sett.save_results
    THEN IF outcome = "write_error"
         THEN [raised |-> TRUE, results |-> res, detected |-> TRUE]
         ELSE [raised |-> FALSE,
               results |-> [res EXCEPT ![<<filename, sett.output_file_format>>] =
                                           blobs_of(images["nir"])],
               detected |-> TRUE]
    ELSE [raised |-> FALSE, results |-> res, detected |-> TRUE]

AnalysisOutcomes == {"ok", "detect_error", "write_error"}

(***************************************************************************)
(* The state after initialize_analysis: a session folder with no raster,   *)
(* no result and no failed.csv; todo.csv is whatever the user put there.   *)
(***************************************************************************)
TodoIds == Filenames \cup {ForeignId}
TodoContents == {Missing, Unreadable, NoColumn}
                   \cup {Table(rows) : rows \in SeqsUpTo(TodoIds, MaxTodoRows)}

ApiSpace == [Layers -> [use : BOOLEAN, servicetype : ServiceTypes]]

SettingsSpace == [save_wms : BOOLEAN, api : ApiSpace, redo : BOOLEAN,
                  save_results : BOOLEAN, output_file_format : Formats]

NoTodo == [kind |-> "none", rows |-> <<>>]

NoLoad == [filename |-> None, cached |-> FALSE, afterStored |-> FALSE,
           fetched |-> [l \in Layers |-> "err"], saveFailAt |-> 0,
           images |-> EmptyDict, status |-> "loading", getmap |-> {},
           disk |-> FALSE, cachedLayers |-> {}]

\* initialize_analysis is not part of these runs
NoTiling == [bbox_img |-> <<0, 0, 0, 0>>, im_size_out |-> 1, pixel_size |-> 1,
             pc |-> "done", bbox_checked |-> <<0, 0, 0, 0>>, coord_df |-> <<>>,
             total_bounding_box |-> <<0, 0, 0, 0>>, calls |-> 0]

\* no iteration runs beside another
NoWorkers == [active |-> FALSE, overlapped |-> FALSE, of |-> EmptyDict,
              files |-> [cache |-> EmptyDict, results |-> EmptyDict]]

\* no results/full.csv
NoFull == [exists |-> FALSE, rows |-> {}, runs |-> 0]

\* no function of the detection is called on its own
NoCall == [fn |-> None, pc |-> "done", args |-> <<>>, result |-> <<>>]

\* the session folder and the pipeline before its first run
\* C and R are the sets of raster files and of result files the folders may
\* hold when the session starts
SessionFiles(S, T, C, R) ==
    /\ settings \in S
    /\ cache \in C
    /\ results \in R
    /\ csv \in [{"failed", "todo"} -> T \cup {Missing}]
    /\ csv["failed"] = Missing
    /\ pc = "idle"
    /\ todo = None
    /\ total = <<>>
    /\ done = 0
    /\ succeeded = <<>>
    /\ failed = <<>>
    /\ data_getters = <<>>
    /\ attempts = <<>>
    /\ error = None
    /\ runs = 0
    /\ todoRead = NoTodo
    /\ prevFailed = <<>>
    /\ lastLoad = NoLoad
    /\ storedOnce = {}
    /\ sessions = EmptyDict
    /\ full = NoFull

SessionOn(S, T, C) ==
    /\ SessionFiles(S, T, C, {[p \in Filenames \X Formats |-> NoFile]})
    /\ workers = NoWorkers

SessionWith(S, T) == SessionOn(S, T, {[p \in Layers \X Filenames |-> NoFile]})

InitWith(S, T) == SessionWith(S, T) /\ tiling = NoTiling /\ detect = NoCall

(***************************************************************************)
(* One load_data call and its record.                                      *)
(***************************************************************************)
LoadRecord(filename, fetched, saveFailAt, r) ==
    [filename |-> filename,
     cached |-> settings.save_wms /\ images_already_saved(cache, filename, settings),
     afterStored |-> filename \in storedOnce,
     fetched |-> fetched, saveFailAt |-> saveFailAt,
     images |-> r.images, status |-> r.status, getmap |-> r.getmap,
     disk |-> r.disk,
     cachedLayers |-> {l \in Layers : cache[<<l, filename>>] # NoFile}]

RecordLoad(filename, fetched, saveFailAt, r) ==
    /\ lastLoad' = LoadRecord(filename, fetched, saveFailAt, r)
    /\ storedOnce' = IF settings.save_wms /\ ~r.disk /\ r.status = "loaded"
                     THEN storedOnce \cup {filename} ELSE storedOnce

\* what the sources answer (the layers not in use are never asked) and the
\* write of save_images that fails, 0 for none
FetchInputs(sett) == {f \in [Layers -> Rasters \cup {"err"}] :
                        \A l \in Layers \ EnabledSet(sett) : f[l] = "err"}
SaveInputs(sett) == 0..(IF sett.save_wms THEN Len(Enabled(sett)) ELSE 0)

\* a caller other than the pipeline calls load_data for one tile
CallLoadData(filename, fetched, saveFailAt) ==
    /\ pc = "idle"
    /\ runs < MaxLoads
    /\ \E r \in {load_data(cache, settings, filename, Enabled(settings),
                            fetched, saveFailAt)} :
           /\ cache' = r.cache
           /\ RecordLoad(filename, fetched, saveFailAt, r)
    /\ runs' = runs + 1
    /\ UNCHANGED <<workers, full, detect, sessions, tiling, settings, results, csv, pc, todo, total, done, succeeded, failed,
                   data_getters, attempts, error, todoRead, prevFailed>>

(***************************************************************************)
(* analysis_pipeline                                                       *)
(***************************************************************************)
\* mutant: the service type is tested before the 'use' switch, so an api that
\* is not in use raises too
RECURSIVE setup_clients_any_api(_, _, _)
setup_clients_any_api(keys, sett, wmsFail) ==
    IF keys = <<>> THEN [error |-> None, getters |-> <<>>]
    ELSE LET api_key == Head(keys) IN
         IF sett.api[api_key].servicetype # "WebMapService"
         THEN [error |-> "ValueError", getters |-> <<>>]
         ELSE IF ~sett.api[api_key].use
         THEN setup_clients_any_api(Tail(keys), sett, wmsFail)
         ELSE IF wmsFail = api_key
         THEN [error |-> "ServiceException", getters |-> <<>>]
         ELSE LET rest == setup_clients_any_api(Tail(keys), sett, wmsFail) IN
              [error |-> rest.error, getters |-> <<api_key>> \o rest.getters]

\* lines 61-67: the first api in use that has another service type raises
\* ValueError; wmsFail is the api whose WebMapService constructor raises.
RECURSIVE setup_clients(_, _, _)
setup_clients(keys, sett, wmsFail) ==
    IF keys = <<>> THEN [error |-> None, getters |-> <<>>]
    ELSE LET api_key == Head(keys) IN
         IF ~sett.api[api_key].use THEN setup_clients(Tail(keys), sett, wmsFail)
         ELSE IF sett.api[api_key].servicetype # "WebMapService"
         THEN [error |-> "ValueError", getters |-> <<>>]
         ELSE IF wmsFail = api_key
         THEN [error |-> "ServiceException", getters |-> <<>>]
         ELSE LET rest == setup_clients(Tail(keys), sett, wmsFail) IN
              [error |-> rest.error, getters |-> <<api_key>> \o rest.getters]

\* mutant: the to-do table is never consulted
select_total_all(coord, todoName, files) == [i \in 1..Len(coord) |-> i]

\* mutant: no fallback, whatever get_todo_filenames returned is the work list
select_total_no_fallback(coord, todoName, files) ==
    IF todoName = None THEN [i \in 1..Len(coord) |-> i]
    ELSE get_todo_filenames(coord, files[todoName]).indices

\* mutant: the grid rows whose id is listed, in grid order
select_total_plan_order(coord, todoName, files) ==
    LET all == [i \in 1..Len(coord) |-> i] IN
    IF todoName = None THEN all
    ELSE LET total_try == get_todo_filenames(coord, files[todoName])
             listed == SelectSeq(all, LAMBDA i : i \in Range(total_try.indices))
         IN  IF ~total_try.is_none /\ Len(listed) > 0 THEN listed ELSE all

\* lines 74-81: the rows to process
select_total(coord, todoName, files) ==
    LET all == [i \in 1..Len(coord) |-> i] IN
    IF todoName = None THEN all
    ELSE LET total_try == get_todo_filenames(coord, files[todoName]) IN
         IF ~total_try.is_none /\ Len(total_try.indices) > 0
         THEN total_try.indices ELSE all

\* the run got past its loop: it returned, or the write of failed.csv raised
LoopEnded == pc = "returned" \/ (pc = "raised" /\ error = "OSError")

\* lines 61-87: a call of analysis_pipeline up to its loop, the session
\* folder having seen fewer than bound calls
BeginRun(todoName, wmsFail, bound) ==
    /\ pc \in {"idle", "returned", "raised"}
    /\ runs < bound
    /\ runs' = runs + 1
    /\ todo' = todoName
    /\ \E g \in {setup_clients(LayerOrder, settings, wmsFail)} :
       /\ data_getters' = g.getters
       /\ error' = g.error
       /\ pc' = IF g.error = None THEN "loop" ELSE "raised"
       /\ total' = IF g.error = None THEN select_total(coord_df, todoName, csv) ELSE <<>>
    /\ succeeded' = <<>>
    /\ failed' = <<>>
    /\ done' = 0
    /\ attempts' = <<>>
    /\ todoRead' = IF todoName = None THEN NoTodo ELSE csv[todoName]
    /\ prevFailed' = IF LoopEnded THEN failed ELSE prevFailed
    /\ UNCHANGED <<workers, full, detect, sessions, tiling, settings, cache, results, csv, lastLoad, storedOnce>>

StartRun(todoName, wmsFail) == BeginRun(todoName, wmsFail, MaxRuns)

\* mutant: no except clause, an exception of the analysis method leaves the run
process_tile_uncaught(cch, res, sett, filename, wmses, fetched, saveFailAt, outcome) ==
    LET l == load_data(cch, sett, filename, wmses, fetched, saveFailAt) IN
    IF l.status = "loaded"
    THEN LET a == scale_space_tree_detect(l.images, res, sett, filename, outcome) IN
         [load |-> l, analysed |-> TRUE, detected |-> a.detected,
          raised |-> a.raised, pc |-> IF a.raised THEN "raised" ELSE "loop",
          status |-> IF a.raised THEN "loading" ELSE "success", results |-> a.results]
    ELSE [load |-> l, analysed |-> FALSE, detected |-> FALSE,
          raised |-> FALSE, pc |-> "loop",
          status |-> "fail", results |-> res]

\* lines 113-151: one tile, with scale_space_tree_detect as analysis_method
\* (single_analysis_main).  status is 'success' or 'fail' as the iteration
\* leaves it; an exception of the analysis method is caught (line 147) and
\* control stays in the loop (pc).
process_tile(cch, res, sett, filename, wmses, fetched, saveFailAt, outcome) ==
    LET l == load_data(cch, sett, filename, wmses, fetched, saveFailAt) IN
    IF l.status = "loaded"
    THEN LET a == scale_space_tree_detect(l.images, res, sett, filename, outcome) IN
         [load |-> l, analysed |-> TRUE, detected |-> a.detected,
          raised |-> a.raised, pc |-> "loop",
          status |-> IF a.raised THEN "fail" ELSE "success", results |-> a.results]
    ELSE [load |-> l, analysed |-> FALSE, detected |-> FALSE,
          raised |-> FALSE, pc |-> "loop",
          status |-> "fail", results |-> res]

\* lines 93-156: one iteration of the main loop
ProcessTile(fetched, saveFailAt, outcome) ==
    /\ pc = "loop"
    /\ done < Len(total)
    /\ \E c \in {total[done + 1]} :
       \E filename \in {coord_df[c]} :
       \E t \in {process_tile(cache, results, settings, filename, data_getters,
                              fetched, saveFailAt, outcome)} :
           /\ cache' = t.load.cache
           /\ results' = t.results
           /\ succeeded' = IF t.status = "success"
                           THEN Append(succeeded, filename) ELSE succeeded
           /\ failed' = IF t.status = "fail" THEN Append(failed, filename) ELSE failed
           /\ pc' = t.pc
           /\ error' = IF t.pc = "raised" THEN "Exception" ELSE error
           /\ attempts' = Append(attempts,
                                 [filename |-> filename, row |-> c,
                                  load |-> t.load.status, getmap |-> t.load.getmap,
                                  analysed |-> t.analysed, detected |-> t.detected,
                                  raised |-> t.raised])
    /\ done' = done + 1
    /\ UNCHANGED <<workers, full, detect, sessions, tiling, settings, csv, todo, total, data_getters, runs, todoRead,
                   prevFailed, lastLoad, storedOnce>>

\* mutant: no os.path.exists test, the retry table is written whenever a
\* tile failed
FinishRun_overwrite(writeOk) ==
    /\ pc = "loop"
    /\ done = Len(total)
    /\ IF Len(failed) > 0
       THEN IF writeOk
            THEN /\ csv' = [csv EXCEPT !["failed"] = Table(failed)]
                 /\ pc' = "returned"
                 /\ error' = None
            ELSE /\ csv' = csv
                 /\ pc' = "raised"
                 /\ error' = "OSError"
       ELSE /\ csv' = csv
            /\ pc' = "returned"
            /\ error' = None
    /\ UNCHANGED <<workers, full, detect, sessions, tiling, settings, cache, results, todo, total, done, succeeded, failed,
                   data_getters, attempts, runs, todoRead, prevFailed, lastLoad,
                   storedOnce>>

\* lines 163-174: the retry table, written only if none exists, and return
FinishRun(writeOk) ==
    /\ pc = "loop"
    /\ done = Len(total)
    /\ IF Len(failed) > 0 /\ csv["failed"] = Missing
       THEN IF writeOk
            THEN /\ csv' = [csv EXCEPT !["failed"] = Table(failed)]
                 /\ pc' = "returned"
                 /\ error' = None
            ELSE /\ csv' = csv
                 /\ pc' = "raised"
                 /\ error' = "OSError"
       ELSE /\ csv' = csv
            /\ pc' = "returned"
            /\ error' = None
    /\ UNCHANGED <<workers, full, detect, sessions, tiling, settings, cache, results, todo, total, done, succeeded, failed,
                   data_getters, attempts, runs, todoRead, prevFailed, lastLoad,
                   storedOnce>>

TodoNames == {None, "failed", "todo"}

Next ==
    \/ \E t \in TodoNames, w \in Layers \cup {None} : StartRun(t, w)
    \/ \E f \in FetchInputs(settings), s \in SaveInputs(settings),
          o \in AnalysisOutcomes : ProcessTile(f, s, o)
    \/ \E w \in BOOLEAN : FinishRun(w)

\* the settings of the pipeline runs: near-infrared in use; rgb not in use,
\* or in use with a service type that is not supported
RunSettings == {s \in SettingsSpace :
                  /\ s.api["nir"] = [use |-> TRUE, servicetype |-> "WebMapService"]
                  /\ s.api["rgb"].use = (s.api["rgb"].servicetype # "WebMapService")
                  /\ s.api["rgb"].use => s.save_wms
                  /\ s.redo
                  /\ s.save_results
                  /\ s.output_file_format = "csv"}

Init == InitWith(RunSettings, TodoContents)

Spec == Init /\ [][Next]_vars

\* load_data called directly, any tile, any answer of the sources
NextLoad ==
    \E n \in Filenames, f \in FetchInputs(settings), s \in SaveInputs(settings) :
        CallLoadData(n, f, s)

\* load_data reads the caching switch and the api table only
LoadSettings == {s \in SettingsSpace :
                   s.redo /\ s.save_results /\ s.output_file_format = "csv"}

InitLoad == InitWith(LoadSettings, {Missing})

SpecLoad == InitLoad /\ [][NextLoad]_vars

\* load_data called with caching off on folders that already hold raster
\* files: load_data takes the folders as an argument, and what is in them is
\* whatever was put there before the call
InitLoadOff ==
    /\ SessionOn({s \in LoadSettings : ~s.save_wms}, {Missing},
                 [Layers \X Filenames -> Rasters \cup {NoFile}])
    /\ tiling = NoTiling
    /\ detect = NoCall

SpecLoadOff == InitLoadOff /\ [][NextLoad]_vars

\* runs that follow the retry table: the script of single_analysis_main run
\* again and again with todo = None or todo = 'failed', near-infrared only,
\* no raster cache
RetrySettings == {s \in SettingsSpace :
                    /\ s.api["nir"] = [use |-> TRUE, servicetype |-> "WebMapService"]
                    /\ s.api["rgb"] = [use |-> FALSE, servicetype |-> "WebMapService"]
                    /\ ~s.save_wms
                    /\ s.redo
                    /\ s.save_results
                    /\ s.output_file_format = "csv"}

InitRetry == InitWith(RetrySettings, {Missing})

NextRetry ==
    \/ \E t \in {None, "failed"} : BeginRun(t, None, MaxRetryRuns)
    \/ \E f \in FetchInputs(settings), o \in AnalysisOutcomes : ProcessTile(f, 0, o)
    \/ \E w \in BOOLEAN : FinishRun(w)

SpecRetry == InitRetry /\ [][NextRetry]_vars

(***************************************************************************)
(* output_utils.py and the script of single_analysis_main: every run of     *)
(* analysis_pipeline that returns is followed by                            *)
(* make_big_csv_file_from_results_folder.  The rows of a tile in a frame    *)
(* are <<filename, blobs>>.                                                 *)
(***************************************************************************)
\* lines 24-34.  glob.glob of '*_*.csv' gives the csv result files of the
\* tiles ('full.csv' has no underscore); if there is one, pd.concat puts
\* their rows in one frame and frame.to_csv writes full.csv anew; every tile
\* file is removed.
make_big_csv_file_from_results_folder ==
    /\ pc = "returned"
    /\ full.runs < runs
    /\ \E filepaths \in {{f \in Filenames : results[<<f, "csv">>] # NoFile}} :
       \E frame \in {{<<f, results[<<f, "csv">>]>> : f \in filepaths}} :
          /\ full' = IF Cardinality(filepaths) > 0
                     THEN [exists |-> TRUE, rows |-> frame, runs |-> runs]
                     ELSE [full EXCEPT !.runs = runs]
          /\ results' = [p \in DOMAIN results |->
                            IF p[1] \in filepaths /\ p[2] = "csv"
                            THEN NoFile ELSE results[p]]
    /\ UNCHANGED <<workers, detect, sessions, tiling, settings, cache, csv, pc, error, todo,
                   total, done, succeeded, failed, data_getters, runs, todoRead,
                   attempts, prevFailed, lastLoad, storedOnce>>

\* the script run again and again, with todo = None or todo = 'failed'; an
\* exception of analysis_pipeline ends the script before the aggregation
ScriptSettings == {s \in SettingsSpace :
                     /\ s.api["nir"] = [use |-> TRUE, servicetype |-> "WebMapService"]
                     /\ s.api["rgb"] = [use |-> FALSE, servicetype |-> "WebMapService"]
                     /\ ~s.save_wms
                     /\ s.save_results
                     /\ s.output_file_format = "csv"}

InitScript == InitWith(ScriptSettings, {Missing})

RunScript(todoName) ==
    /\ pc = "returned" => full.runs = runs
    /\ BeginRun(todoName, None, MaxRetryRuns)

NextScript ==
    \/ \E t \in {None, "failed"} : RunScript(t)
    \/ \E f \in FetchInputs(settings), o \in AnalysisOutcomes : ProcessTile(f, 0, o)
    \/ \E w \in BOOLEAN : FinishRun(w)
    \/ make_big_csv_file_from_results_folder

SpecScript == InitScript /\ [][NextScript]_vars

\* runs with redo_if_already_processed off: near-infrared only, no raster
\* cache, results saved in either format
RedoOffSettings == {s \in SettingsSpace :
                      /\ s.api["nir"] = [use |-> TRUE, servicetype |-> "WebMapService"]
                      /\ s.api["rgb"] = [use |-> FALSE, servicetype |-> "WebMapService"]
                      /\ ~s.save_wms
                      /\ ~s.redo
                      /\ s.save_results}

InitRedoOff == InitWith(RedoOffSettings, {Missing})

NextRedoOff ==
    \/ StartRun(None, None)
    \/ \E f \in FetchInputs(settings), o \in AnalysisOutcomes : ProcessTile(f, 0, o)
    \/ \E w \in BOOLEAN : FinishRun(w)

SpecRedoOff == InitRedoOff /\ [][NextRedoOff]_vars

\* runs over every api table: each api in use or not, of either service
\* type; no raster cache, no to-do table
ClientSettings == {s \in SettingsSpace :
                     /\ ~s.save_wms
                     /\ s.redo
                     /\ s.save_results
                     /\ s.output_file_format = "csv"}

InitClients == InitWith(ClientSettings, {Missing})

NextClients ==
    \/ \E w \in Layers \cup {None} : StartRun(None, w)
    \/ \E f \in FetchInputs(settings), o \in AnalysisOutcomes : ProcessTile(f, 0, o)
    \/ \E w \in BOOLEAN : FinishRun(w)

SpecClients == InitClients /\ [][NextClients]_vars

\* one call of analysis_pipeline per session folder, with todo = None or
\* todo = 'todo' and any to-do table; near-infrared only, no raster cache.
\* The loop is sequential code and each call in it returns or raises, so an
\* iteration that can run does run, and so does the end of the run.
MaxPasses == 1

InitOnePass == InitWith(RetrySettings, TodoContents)

Iterate == \E f \in FetchInputs(settings), o \in AnalysisOutcomes : ProcessTile(f, 0, o)

Finish == \E w \in BOOLEAN : FinishRun(w)

NextOnePass ==
    \/ \E t \in {None, "todo"} : BeginRun(t, None, MaxPasses)
    \/ Iterate
    \/ Finish

SpecOnePass ==
    InitOnePass /\ [][NextOnePass]_vars /\ WF_vars(Iterate) /\ WF_vars(Finish)

(***************************************************************************)
(* initialize_analysis: check_bbox, then cut_up_bbox on the checked box     *)
(* (lines 204-214), then the session folder and its two files (220-233).    *)
(***************************************************************************)
Lons == {-60, 0, 30, 60, 120}
Lats == {-60, 0, 60}
ImSizes == 1..MaxImSize
PixelSizes == {15, 20}

\* every lookup of the two haversine calls of cut_up_bbox is in its table
Tabulated(b) ==
    /\ Abs(b[3] - b[1]) \in DOMAIN SinHalfSq4
    /\ Abs(b[4] - b[2]) \in DOMAIN SinHalfSq4
    /\ haversine_a16(b[1], b[2], b[3], b[2]) \in DOMAIN TwoAsinSqrt16
    /\ haversine_a16(b[1], b[2], b[1], b[4]) \in DOMAIN TwoAsinSqrt16

BboxInputs == {b \in Lons \X Lats \X Lons \X Lats : Tabulated(check_bbox(b))}

InitTiling ==
    /\ SessionWith(RetrySettings, {Missing})
    /\ detect = NoCall
    /\ \E b \in BboxInputs, n \in ImSizes, p \in PixelSizes :
          tiling = [bbox_img |-> b, im_size_out |-> n, pixel_size |-> p,
                    pc |-> "start", bbox_checked |-> <<0, 0, 0, 0>>,
                    coord_df |-> <<>>, total_bounding_box |-> <<0, 0, 0, 0>>,
                    calls |-> 0]

\* line 220: the sha1 digest of str(bbox_img) + str(settings), taken to be
\* free of collisions; the settings dictionary holds im_size_out and
\* pixel_size with the rest of the settings
param_str(bbox_img, sett, im_size_out, pixel_size) ==
    <<"sha1", bbox_img, <<sett, im_size_out, pixel_size>>>>

\* create_folders: os.mkdir for each folder that does not exist; a new base
\* folder holds no file
NewFolder == [settings_yml |-> [content |-> NoFile, writes |-> 0],
              coord_csv |-> [content |-> NoFile, writes |-> 0],
              calls |-> {}]

create_folders(disk, key) ==
    IF key \in DOMAIN disk THEN disk ELSE disk @@ (key :> NewFolder)

\* mutant: no os.path.exists test, the file is written by every call
write_always(file, content) ==
    [content |-> content, writes |-> file.writes + 1]

\* lines 225-228 and 231-232: the file is written only if it does not exist
write_if_missing(file, content) ==
    IF file.content = NoFile
    THEN [content |-> content, writes |-> file.writes + 1]
    ELSE file

\* lines 144-145 of cut_up_bbox: haversine hands a nan coordinate on, and
\* int(np.ceil(x)) raises ValueError when x is nan.  The height is nan when
\* lon1, lat1 or lat2 is, the width when lon1, lat1 or lon2 is.
cut_up_bbox_raises(bbox_full) ==
    LET map_height_nan == nan \in {bbox_full[1], bbox_full[2], bbox_full[4]}
        map_width_nan == nan \in {bbox_full[1], bbox_full[2], bbox_full[3]}
    IN  map_height_nan \/ map_width_nan

\* mutant: the session folder is made before the box is cut up
initialize_analysis_folders_first(bbox_arg, im_size_out, pixel_size) ==
    /\ \E bbox_img \in {check_bbox(bbox_arg)} :
       \E key \in {param_str(bbox_img, settings, im_size_out, pixel_size)} :
       \E disk \in {create_folders(sessions, key)} :
       IF cut_up_bbox_raises(bbox_img)
       THEN /\ tiling' = [tiling EXCEPT !.bbox_img = bbox_arg, !.im_size_out = im_size_out,
                                      !.pixel_size = pixel_size, !.pc = "raised",
                                      !.bbox_checked = bbox_img,
                                      !.calls = @ + 1]
            /\ sessions' = disk
       ELSE \E cut \in {cut_up_bbox(bbox_img, im_size_out, pixel_size)} :
          /\ tiling' = [bbox_img |-> bbox_arg, im_size_out |-> im_size_out,
                        pixel_size |-> pixel_size, pc |-> "done",
                        bbox_checked |-> bbox_img, coord_df |-> cut.coord_df,
                        total_bounding_box |-> cut.total_bounding_box,
                        calls |-> tiling.calls + 1]
          /\ sessions' =
                [disk EXCEPT
                   ![key].settings_yml =
                       write_if_missing(@, <<settings, im_size_out, pixel_size>>),
                   ![key].coord_csv = write_if_missing(@, cut.coord_df),
                   ![key].calls = @ \cup {<<bbox_arg, im_size_out, pixel_size>>}]
    /\ UNCHANGED <<workers, full, detect, settings, cache, results, csv, pc, error, todo, total, done,
                   succeeded, failed, data_getters, runs, todoRead, attempts,
                   prevFailed, lastLoad, storedOnce>>

\* lines 204-235; calls is the set of arguments that resolved to the folder.
\* An exception of cut_up_bbox (line 214) leaves the function there.
initialize_analysis(bbox_arg, im_size_out, pixel_size) ==
    /\ \E bbox_img \in {check_bbox(bbox_arg)} :
       IF cut_up_bbox_raises(bbox_img)
       THEN /\ tiling' = [tiling EXCEPT !.bbox_img = bbox_arg, !.im_size_out = im_size_out,
                                      !.pixel_size = pixel_size, !.pc = "raised",
                                      !.bbox_checked = bbox_img,
                                      !.calls = @ + 1]
            /\ sessions' = sessions
       ELSE
       \E cut \in {cut_up_bbox(bbox_img, im_size_out, pixel_size)} :
       \E key \in {param_str(bbox_img, settings, im_size_out, pixel_size)} :
       \E disk \in {create_folders(sessions, key)} :
          /\ tiling' = [bbox_img |-> bbox_arg, im_size_out |-> im_size_out,
                        pixel_size |-> pixel_size, pc |-> "done",
                        bbox_checked |-> bbox_img, coord_df |-> cut.coord_df,
                        total_bounding_box |-> cut.total_bounding_box,
                        calls |-> tiling.calls + 1]
          /\ sessions' =
                [disk EXCEPT
                   ![key].settings_yml =
                       write_if_missing(@, <<settings, im_size_out, pixel_size>>),
                   ![key].coord_csv = write_if_missing(@, cut.coord_df),
                   ![key].calls = @ \cup {<<bbox_arg, im_size_out, pixel_size>>}]
    /\ UNCHANGED <<workers, full, detect, settings, cache, results, csv, pc, error, todo, total, done,
                   succeeded, failed, data_getters, runs, todoRead, attempts,
                   prevFailed, lastLoad, storedOnce>>

\* the one call of single_analysis_main
NextTiling ==
    /\ tiling.pc = "start"
    /\ initialize_analysis(tiling.bbox_img, tiling.im_size_out, tiling.pixel_size)

SpecTiling == InitTiling /\ [][NextTiling]_vars

\* a script that calls initialize_analysis up to MaxInits times, with boxes
\* given in either corner order and two pixel sizes, and analysis_pipeline
\* once, before or after any of these calls
MaxInits == 3

SessionBoxes == {<<0, 0, 60, 0>>, <<60, 0, 0, 0>>, <<0, 0, 0, 60>>} \cap BboxInputs

InitSession == InitWith(RetrySettings, {Missing})

Initialize ==
    /\ tiling.calls < MaxInits
    /\ pc # "loop"
    /\ \E b \in SessionBoxes, p \in PixelSizes : initialize_analysis(b, MaxImSize, p)

RunPipeline == tiling.calls > 0 /\ BeginRun(None, None, MaxPasses)

NextSession ==
    \/ Initialize
    \/ RunPipeline
    \/ Iterate
    \/ Finish

SpecSession == InitSession /\ [][NextSession]_vars

\* a script that calls initialize_analysis up to MaxInits times with regions
\* of which some hold a coordinate that is not a number
NanBoxes == {<<nan, 0, 60, 0>>, <<0, nan, 60, 0>>, <<0, 0, nan, 0>>,
             <<0, 0, 60, nan>>, <<nan, nan, nan, nan>>}

NextRegion ==
    /\ tiling.calls < MaxInits
    /\ \E b \in SessionBoxes \cup NanBoxes, p \in PixelSizes :
          initialize_analysis(b, MaxImSize, p)

SpecRegion == InitSession /\ [][NextRegion]_vars

(***************************************************************************)
(* The iterations of the main loop (analysis_pipeline, lines 93-151) of     *)
(* MaxWorkers tiles run side by side.  An iteration is two steps: the       *)
(* load_data call (line 116) with the entry in failed that follows another  *)
(* status (line 141), and the analysis_method call (lines 125-131) with the *)
(* entry in succeeded or failed that follows it (lines 134, 149).  The      *)
(* session folder holds what an earlier run left.                           *)
(***************************************************************************)
MaxWorkers == 2

WorkerTiles == SubSeq(coord_df, 1, MaxWorkers)

\* the for loop over the tiles, one whole iteration after another, with the
\* answers of the sources and of the analysis that w records
RECURSIVE sequential_run(_, _, _, _)
sequential_run(tiles, cch, res, w) ==
    IF tiles = <<>>
    THEN [cache |-> cch, results |-> res, succeeded |-> {}, failed |-> {}]
    ELSE \* one iteration, then the rest of the loop
         LET filename == Head(tiles)
             t == process_tile(cch, res, settings, filename, Enabled(settings),
                               w[filename].fetched, w[filename].saveFailAt,
                               w[filename].outcome)
             rest == sequential_run(Tail(tiles), t.load.cache, t.results, w)
         IN  [rest EXCEPT
                !.succeeded = @ \cup (IF t.status = "success" THEN {filename} ELSE {}),
                !.failed = @ \cup (IF t.status = "fail" THEN {filename} ELSE {})]

\* line 116, and lines 139-141 when the status is not loaded
LoadStep(filename, fetched, saveFailAt) ==
    /\ workers.active
    /\ workers.of[filename].pc = "load"
    /\ \E l \in {load_data(cache, settings, filename, Enabled(settings),
                            fetched, saveFailAt)} :
          /\ cache' = l.cache
          /\ failed' = IF l.status = "loaded" THEN failed ELSE Append(failed, filename)
          /\ workers' =
                [workers EXCEPT
                   !.of[filename] =
                       [pc |-> IF l.status = "loaded" THEN "analyse" ELSE "done",
                        fetched |-> fetched, saveFailAt |-> saveFailAt,
                        outcome |-> "ok", images |-> l.images, status |-> l.status],
                   !.overlapped = @ \/ \E g \in DOMAIN workers.of : g # filename /\ workers.of[g].pc = "analyse"]
    /\ UNCHANGED <<full, detect, sessions, tiling, settings, results, csv, pc, error,
                   todo, total, done, succeeded, data_getters, runs, todoRead,
                   attempts, prevFailed, lastLoad, storedOnce>>

\* lines 125-134, and lines 147-149 when the analysis method raises
AnalyseStep(filename, outcome) ==
    /\ workers.active
    /\ workers.of[filename].pc = "analyse"
    /\ \E a \in {scale_space_tree_detect(workers.of[filename].images, results,
                                          settings, filename, outcome)} :
          /\ results' = a.results
          /\ succeeded' = IF a.raised THEN succeeded ELSE Append(succeeded, filename)
          /\ failed' = IF a.raised THEN Append(failed, filename) ELSE failed
          /\ workers' =
                [workers EXCEPT
                   !.of[filename].pc = "done",
                   !.of[filename].outcome = outcome,
                   !.of[filename].status = IF a.raised THEN "fail" ELSE "success",
                   !.overlapped = @ \/ \E g \in DOMAIN workers.of : g # filename /\ workers.of[g].pc = "analyse"]
    /\ UNCHANGED <<full, detect, sessions, tiling, settings, cache, csv, pc, error,
                   todo, total, done, data_getters, runs, todoRead, attempts,
                   prevFailed, lastLoad, storedOnce>>

\* both layers in use, the raster cache on or off, redo on or off
WorkerSettings == {s \in SettingsSpace :
                     /\ \A l \in Layers :
                          s.api[l] = [use |-> TRUE, servicetype |-> "WebMapService"]
                     /\ s.save_results}

\* what a run that was stopped after its first iteration left: every raster
\* of the first tile or none, and its .csv result file or none
LeftRasters == {c \in [Layers \X Filenames -> Rasters \cup {NoFile}] :
                  \A f \in Filenames :
                     /\ f # Head(WorkerTiles) => \A l \in Layers : c[<<l, f>>] = NoFile
                     /\ \A l, m \in Layers : c[<<l, f>>] = c[<<m, f>>]}

LeftResults == {r \in [Filenames \X Formats -> {blobs_of(x) : x \in Rasters} \cup {NoFile}] :
                  \A p \in Filenames \X Formats :
                     (p[1] # Head(WorkerTiles) \/ p[2] # "csv") => r[p] = NoFile}

InitWorkers ==
    /\ SessionFiles(WorkerSettings, {Missing}, LeftRasters, LeftResults)
    /\ tiling = NoTiling
    /\ detect = NoCall
    /\ workers = [active |-> TRUE, overlapped |-> FALSE,
                  of |-> [f \in Range(WorkerTiles) |->
                            [pc |-> "load", fetched |-> [l \in Layers |-> "err"],
                             saveFailAt |-> 0, outcome |-> "ok",
                             images |-> EmptyDict, status |-> "loading"]],
                  files |-> [cache |-> cache, results |-> results]]

NextWorkers ==
    \/ \E n \in Range(WorkerTiles), f \in FetchInputs(settings), s \in SaveInputs(settings) :
          LoadStep(n, f, s)
    \/ \E n \in Range(WorkerTiles), o \in AnalysisOutcomes : AnalyseStep(n, o)

SpecWorkers == InitWorkers /\ [][NextWorkers]_vars

(***************************************************************************)
(* Floating point.  A float is a rational <<n, d>>, d a power of two, with *)
(* a significand of DoubleBits bits (Python float, numpy float64) or of    *)
(* SingleBits bits (numpy float32); every operation returns the float       *)
(* nearest to the exact result, ties to the even significand.  The          *)
(* exponent range is not bounded.                                           *)
(***************************************************************************)
DoubleBits == 6
SingleBits == 4

Float(k) == <<k, 1>>

Neg(x) == <<-x[1], x[2]>>

Le(x, y) == x[1] * y[2] <= y[1] * x[2]
Lt(x, y) == x[1] * y[2] < y[1] * x[2]
Eq(x, y) == x[1] * y[2] = y[1] * x[2]

\* the integer nearest to n / d, a tie going to the even one
RoundHalfEven(n, d) ==
    LET q == n \div d
        r == n % d
    IN  IF 2 * r > d \/ (2 * r = d /\ q % 2 = 1) THEN q + 1 ELSE q

\* n / d > 0 rounded to a significand of p bits
RECURSIVE RoundPositive(_, _, _)
RoundPositive(n, d, p) ==
    IF n >= d * 2^p
    THEN LET r == RoundPositive(n, 2 * d, p) IN <<2 * r[1], r[2]>>
    ELSE IF n < d * 2^(p - 1)
    THEN LET r == RoundPositive(2 * n, d, p) IN
         IF r[1] % 2 = 0 THEN <<r[1] \div 2, r[2]>> ELSE <<r[1], 2 * r[2]>>
    ELSE <<RoundHalfEven(n, d), 1>>

Round(x, p) ==
    IF x[1] = 0 THEN <<0, 1>>
    ELSE IF x[1] < 0 THEN Neg(RoundPositive(-x[1], x[2], p))
    ELSE RoundPositive(x[1], x[2], p)

\* the exact sum, difference, product and quotient of two floats
Sum(x, y) == <<x[1] * y[2] + y[1] * x[2], x[2] * y[2]>>
Difference(x, y) == <<x[1] * y[2] - y[1] * x[2], x[2] * y[2]>>
Product(x, y) == <<x[1] * y[1], x[2] * y[2]>>
Quotient(x, y) ==
    IF y[1] < 0 THEN <<-(x[1] * y[2]), x[2] * (-y[1])>> ELSE <<x[1] * y[2], x[2] * y[1]>>

\* x + y, x - y, x * y and x / y of Python floats; y # 0 in x / y
fadd(x, y) == Round(Sum(x, y), DoubleBits)
fsub(x, y) == Round(Difference(x, y), DoubleBits)
fmul(x, y) == Round(Product(x, y), DoubleBits)
fdiv(x, y) == Round(Quotient(x, y), DoubleBits)

\* int(x): the integer part, towards zero
int(x) == IF x[1] < 0 THEN -((-x[1]) \div x[2]) ELSE x[1] \div x[2]

\* math.floor of an exact quotient
Floor(x) == x[1] \div x[2]

\* the store of a value in a float32 array
float32(x) == Round(x, SingleBits)

(***************************************************************************)
(* geo_indices.py                                                           *)
(***************************************************************************)
Finite(v) == [finite |-> TRUE, value |-> v]
NotFinite == [finite |-> FALSE, value |-> <<0, 1>>]

\* mutant: the simple ratio nir / red in place of the normalised difference
calculate_ratio(nir, red) ==
    IF red[1] = 0 THEN NotFinite ELSE Finite(fdiv(nir, red))

\* calculate_ndvi: (nir - red) / (nir + red); numpy gives nan or an
\* infinity, with a warning, where nir + red is 0
calculate_ndvi(nir, red) ==
    LET num == fsub(nir, red)
        den == fadd(nir, red)
    IN  IF den[1] = 0 THEN NotFinite ELSE Finite(fdiv(num, den))

\* calculate_ndvi called on one pixel, of any sign
Reflectances == {Float(k) : k \in (-MaxReflectance)..MaxReflectance}

InitNdvi ==
    /\ SessionWith(RetrySettings, {Missing})
    /\ tiling = NoTiling
    /\ \E nir \in Reflectances, red \in Reflectances :
          detect = [fn |-> "calculate_ndvi", pc |-> "start", args |-> <<nir, red>>,
                    result |-> NotFinite]

PipelineVars == <<settings, cache, results, csv, pc, error, todo, total, done,
                  succeeded, failed, data_getters, runs, todoRead, attempts,
                  prevFailed, lastLoad, storedOnce, full, workers>>

call_calculate_ndvi ==
    /\ detect.fn = "calculate_ndvi"
    /\ detect.pc = "start"
    /\ detect' = [detect EXCEPT !.pc = "done",
                                !.result = calculate_ndvi(detect.args[1], detect.args[2])]
    /\ UNCHANGED <<PipelineVars, tiling, sessions>>

NextNdvi == call_calculate_ndvi

SpecNdvi == InitNdvi /\ [][NextNdvi]_vars

(***************************************************************************)
(* scale_space_tree_detection.py, lines 124-129: the scales of the blob     *)
(* detector.                                                                *)
(***************************************************************************)
\* min_sigma, max_sigma and num_sigma of log_blob_detect
scale_count(minrad, maxrad, steprad, pixel_size) ==
    LET minradpix == fdiv(minrad, pixel_size)
        maxradpix == fdiv(maxrad, pixel_size)
        difrad == fsub(maxrad, minrad)
        difradpix == fdiv(difrad, pixel_size)
        stepradpix == fdiv(steprad, pixel_size)
        nscales == int(fdiv(difradpix, stepradpix))
    IN  [minradpix |-> minradpix, maxradpix |-> maxradpix, nscales |-> nscales]

\* the radii of settings['scale_space'] and the pixel size of
\* settings['data'], in metres: 0 < minrad <= maxrad, 0 < steprad
Radii == {Float(k) : k \in 1..MaxRadius}
StepRadii == {Float(k) : k \in 1..MaxStepRadius}
MetresPerPixel == {Float(k) : k \in 1..MaxPixelSize}

InitScales ==
    /\ SessionWith(RetrySettings, {Missing})
    /\ tiling = NoTiling
    /\ \E minrad \in Radii, maxrad \in Radii, steprad \in StepRadii,
          pixel_size \in MetresPerPixel :
          /\ Le(minrad, maxrad)
          /\ detect = [fn |-> "scale_count", pc |-> "start",
                       args |-> <<minrad, maxrad, steprad, pixel_size>>,
                       result |-> [minradpix |-> Float(0), maxradpix |-> Float(0),
                                   nscales |-> 0]]

call_scale_count ==
    /\ detect.fn = "scale_count"
    /\ detect.pc = "start"
    /\ detect' = [detect EXCEPT !.pc = "done",
                                !.result = scale_count(detect.args[1], detect.args[2],
                                                       detect.args[3], detect.args[4])]
    /\ UNCHANGED <<PipelineVars, tiling, sessions>>

NextScales == call_scale_count

SpecScales == InitScales /\ [][NextScales]_vars

(***************************************************************************)
(* scale_space_tree_detection.py, lines 150-154: the detections, an array   *)
(* of float32 from line 150 on.  A blob is <<row, col>>; the bounding box   *)
(* of the tile, the pixel size and the distances are in the units of        *)
(* coordinate_utils above, whose float64 arithmetic is exact next to a      *)
(* float32.                                                                 *)
(***************************************************************************)
\* the float32 nearest to the number n
single(n) == int(float32(Float(n)))

\* points_to_coords: np.multiply on the float32 points, then haversine_inv
\* for each point
points_to_coords(points, pixel_size, bbox) ==
    LET lon1 == bbox[1]
        lat1 == bbox[2]
        metres == [b \in 1..Len(points) |->
                      <<single(points[b][1] * pixel_size),
                        single(points[b][2] * pixel_size)>>]
    IN  [b \in 1..Len(points) |->
            haversine_inv(lon1, lat1, metres[b][1], metres[b][2])]

\* lines 150-154: rows is ndvi.shape[0]; points are the pixel coordinates
\* (x, y) after the two flips, coords what the array holds after line 154
blob_coords(blobs, rows, pixel_size, bbox) ==
    LET as_float32 == [b \in 1..Len(blobs) |-> <<single(blobs[b][1]), single(blobs[b][2])>>]
        flipped == [b \in 1..Len(blobs) |-> <<as_float32[b][2], as_float32[b][1]>>]
        points == [b \in 1..Len(blobs) |-> <<flipped[b][1], single(rows - flipped[b][2])>>]
        coords == points_to_coords(points, pixel_size, bbox)
    IN  [points |-> points,
         coords |-> [b \in 1..Len(blobs) |-> <<single(coords[b][1]), single(coords[b][2])>>]]

\* a tile of a grid of cut_up_bbox, requested with im_size_out pixels a side
\* (input_utils.py line 290), and one blob in every row of one of its
\* columns; the tile is one at whose latitude math.cos is tabulated
TileBox(t) == <<t.lon_min, t.lat_min, t.lon_max, t.lat_max>>

InitBlobs ==
    /\ SessionWith(RetrySettings, {Missing})
    /\ tiling = NoTiling
    /\ \E b \in BboxInputs, n \in ImSizes, p \in PixelSizes :
       \E t \in Range(cut_up_bbox(check_bbox(b), n, p).coord_df), col \in 0..(n - 1) :
          /\ b = check_bbox(b)
          /\ t.lat_min \in DOMAIN Cos2
          /\ detect = [fn |-> "blob_coords", pc |-> "start",
                       args |-> [blobs |-> [k \in 1..n |-> <<k - 1, col>>], rows |-> n,
                                 pixel_size |-> p, bbox |-> TileBox(t)],
                       result |-> [points |-> <<>>, coords |-> <<>>]]

call_blob_coords ==
    /\ detect.fn = "blob_coords"
    /\ detect.pc = "start"
    /\ detect' = [detect EXCEPT !.pc = "done",
                                !.result = blob_coords(detect.args.blobs, detect.args.rows,
                                                       detect.args.pixel_size,
                                                       detect.args.bbox)]
    /\ UNCHANGED <<PipelineVars, tiling, sessions>>

NextBlobs == call_blob_coords

SpecBlobs == InitBlobs /\ [][NextBlobs]_vars

(***************************************************************************)
(* Vocabulary of the properties.                                           *)
(***************************************************************************)
NamesOf(s) == [i \in 1..Len(s) |-> s[i].filename]

NoDup(s) == \A i, j \in 1..Len(s) : i # j => s[i] # s[j]

IsPrefix(s, t) == Len(s) <= Len(t) /\ \A i \in 1..Len(s) : s[i] = t[i]

AllRows == [i \in 1..Len(coord_df) |-> i]

InGrid(id) == id \in Filenames

\* a run is in its loop or past it
InRun == pc = "loop" \/ LoopEnded

\* the iteration ended in the failed list: load_data did not return 'loaded',
\* or the analysis method raised
TileFailed(a) == a.load # "loaded" \/ a.raised
TileSucceeded(a) == ~TileFailed(a)

\* the run reads a to-do table that parses and has at least one row
ReadsTable == InRun /\ todoRead.kind = "table" /\ Len(todoRead.rows) >= 1

\* the sources and the disk would have served the last load_data call
FetchOk(rec) ==
    \A l \in EnabledSet(settings) : IsWms(settings, l) /\ rec.fetched[l] # "err"
SaveOk(rec) ==
    ~(settings.save_wms /\ rec.saveFailAt \in 1..Len(Enabled(settings)))

(***************************************************************************)
(* C1.  A tile whose load or analysis fails is recorded as failed, it and   *)
(* no other, and the loop goes on: the iterations made are the first rows   *)
(* of the work list, the failed list holds the tiles that failed and the    *)
(* succeeded list the others, a run past its loop has attempted every       *)
(* selected tile, and no tile failure makes analysis_pipeline raise.        *)
(***************************************************************************)
C1_TileFailureIsLocal ==
    /\ InRun =>
         /\ Len(attempts) = done
         /\ done <= Len(total)
         /\ \A i \in 1..Len(attempts) :
               attempts[i].row = total[i] /\ attempts[i].filename = coord_df[total[i]]
         /\ failed = NamesOf(SelectSeq(attempts, TileFailed))
         /\ succeeded = NamesOf(SelectSeq(attempts, TileSucceeded))
    /\ LoopEnded => Len(attempts) = Len(total)
    /\ pc = "raised" => error \in {"ValueError", "ServiceException", "OSError"}

C1_Witness ==
    /\ pc = "returned"
    /\ \E i, j, k \in 1..Len(attempts) :
         /\ i < j /\ j < k
         /\ attempts[i].raised
         /\ attempts[j].load = "load_fail"
         /\ TileSucceeded(attempts[k])

(***************************************************************************)
(* C2.  When the run returns every selected tile has exactly one outcome:   *)
(* no id twice in a list, no id in both lists, and as many outcomes as      *)
(* distinct selected tiles.                                                 *)
(***************************************************************************)
SelectedTiles == {coord_df[total[i]] : i \in 1..Len(total)}

C2_OneOutcomePerTile ==
    pc = "returned" =>
        /\ NoDup(succeeded)
        /\ NoDup(failed)
        /\ Range(succeeded) \cap Range(failed) = {}
        /\ Len(succeeded) + Len(failed) = Cardinality(SelectedTiles)

(***************************************************************************)
(* C3.  With caching on and every layer in use cached, a failed disk read   *)
(* goes on to the sources in the same call: the call returns 'loaded'       *)
(* whenever the sources answer and the save succeeds.                       *)
(***************************************************************************)
C3_ReadErrorFallsThrough ==
    (/\ lastLoad.cached
     /\ EnabledSet(settings) # {}
     /\ FetchOk(lastLoad) /\ SaveOk(lastLoad))
        => lastLoad.status = "loaded"

(***************************************************************************)
(* C4.  With caching on, a load_data call for a tile that an earlier call   *)
(* fetched and stored returns 'loaded' with the stored rasters.             *)
(***************************************************************************)
StoredRasters(filename) ==
    [l \in EnabledSet(settings) |-> cache[<<l, filename>>]]

C4_SecondLoadSameRasters ==
    (settings.save_wms /\ lastLoad.afterStored) =>
        /\ lastLoad.status = "loaded"
        /\ lastLoad.images = StoredRasters(lastLoad.filename)

C6_FailureMeansEmpty ==
    (lastLoad.filename # None /\ lastLoad.status # "loaded")
        => lastLoad.images = EmptyDict

(***************************************************************************)
(* C6, amended.  load_data returns on every failure of the fetch or of the  *)
(* save, with a status other than 'loaded'; the images dictionary is empty  *)
(* when the fetch failed or the disk cache was read, and holds the fetched  *)
(* rasters when the fetch succeeded and only the save failed.               *)
(***************************************************************************)
C6_FailureImages ==
    lastLoad.filename # None =>
        /\ lastLoad.status \in {"loaded", "load_fail", "retry"}
        /\ (~lastLoad.cached /\ (~FetchOk(lastLoad) \/ ~SaveOk(lastLoad)))
              => lastLoad.status = "load_fail"
        /\ lastLoad.status # "loaded" =>
              IF ~lastLoad.cached /\ FetchOk(lastLoad)
              THEN /\ ~SaveOk(lastLoad)
                   /\ lastLoad.images = [l \in EnabledSet(settings) |-> lastLoad.fetched[l]]
              ELSE lastLoad.images = EmptyDict

C6_Witness ==
    /\ lastLoad.status = "load_fail"
    /\ FetchOk(lastLoad) /\ ~SaveOk(lastLoad)
    /\ Cardinality(DOMAIN lastLoad.images) = 2

(***************************************************************************)
(* C7.  A run restricted to the failed ids of the prior run loads and       *)
(* analyses those tiles only, all of them by the time its loop ends, and    *)
(* no step of it changes a cache file or a result file of another tile.     *)
(***************************************************************************)
ResumesPrior == InRun /\ prevFailed # <<>> /\ todoRead = Table(prevFailed)

OtherTilesUntouched ==
    \A f \in Filenames \ Range(prevFailed) :
        /\ \A l \in Layers : cache'[<<l, f>>] = cache[<<l, f>>]
        /\ \A x \in Formats : results'[<<f, x>>] = results[<<f, x>>]

C7_ResumeOnlyFailed ==
    /\ [](ResumesPrior =>
            /\ Range(NamesOf(attempts)) \subseteq Range(prevFailed)
            /\ LoopEnded => Range(NamesOf(attempts)) = Range(prevFailed))
    /\ [][(ResumesPrior /\ ResumesPrior') => OtherTilesUntouched]_vars

C7_Witness ==
    /\ ResumesPrior
    /\ pc = "returned"
    /\ Cardinality(Range(prevFailed)) = 2
    /\ Len(succeeded) >= 1
    /\ \E f \in Filenames \ Range(prevFailed) : results[<<f, "csv">>] # NoFile

(***************************************************************************)
(* C8.  A run that reads a to-do table with at least one row processes only *)
(* tiles listed in the table.                                               *)
(***************************************************************************)
C8_OnlyListedTiles ==
    ReadsTable => Range(NamesOf(attempts)) \subseteq Range(todoRead.rows)

(***************************************************************************)
(* C8, amended.  If at least one listed id is in the grid, the run          *)
(* processes the listed tiles of the grid and no other tile, the ids that   *)
(* are not in the grid being skipped; if none is, it processes every tile   *)
(* of the grid.                                                             *)
(***************************************************************************)
C8_ListedOrFullGrid ==
    ReadsTable =>
        IF Range(todoRead.rows) \cap Filenames # {}
        THEN /\ Range(NamesOf(attempts)) \subseteq Range(todoRead.rows)
             /\ SelectedTiles = Range(todoRead.rows) \cap Filenames
             /\ LoopEnded => Range(NamesOf(attempts)) = Range(todoRead.rows) \cap Filenames
        ELSE /\ total = AllRows
             /\ LoopEnded => NamesOf(attempts) = coord_df

C8_Witness ==
    /\ ReadsTable
    /\ pc = "returned"
    /\ ForeignId \in Range(todoRead.rows)
    /\ Range(todoRead.rows) \cap Filenames # {}
    /\ Len(attempts) = 1

(***************************************************************************)
(* C9.  A run given a to-do name whose table is missing, cannot be read,    *)
(* has no filename column or has no rows goes over every row of the grid,   *)
(* as a run without a to-do name does, and the table makes nothing raise.   *)
(***************************************************************************)
NoUsableTable == todo # None /\ (todoRead.kind # "table" \/ Len(todoRead.rows) = 0)

C9_FallbackToFullGrid ==
    /\ (InRun /\ NoUsableTable) =>
          /\ total = AllRows
          /\ IsPrefix(NamesOf(attempts), coord_df)
          /\ LoopEnded => NamesOf(attempts) = coord_df
    /\ (pc = "raised" /\ NoUsableTable) =>
          error \in {"ValueError", "ServiceException", "OSError"}

C9_Witness ==
    /\ pc = "returned"
    /\ todo # None
    /\ todoRead = NoColumn
    /\ NamesOf(attempts) = coord_df

(***************************************************************************)
(* C10.  The tiles are processed in the order of the grid table: of two     *)
(* iterations of a run the earlier one has the smaller row index.           *)
(***************************************************************************)
C10_PlanOrder ==
    InRun => \A i, j \in 1..Len(attempts) :
                (i < j /\ attempts[i].row # attempts[j].row)
                    => attempts[i].row < attempts[j].row

(***************************************************************************)
(* C10, amended.  A run that is not restricted processes the tiles in the   *)
(* order of the grid table; a run restricted by a to-do table processes     *)
(* them in the order of the rows of that table.                             *)
(***************************************************************************)
ListedInGrid == SelectSeq(todoRead.rows, InGrid)

ExpectedOrder ==
    IF todoRead.kind = "table" /\ ListedInGrid # <<>> THEN ListedInGrid ELSE coord_df

C10_TableOrder ==
    InRun =>
        /\ IsPrefix(NamesOf(attempts), ExpectedOrder)
        /\ LoopEnded => NamesOf(attempts) = ExpectedOrder

C10_Witness ==
    /\ pc = "returned"
    /\ todoRead.kind = "table"
    /\ Len(attempts) = 2
    /\ attempts[1].row > attempts[2].row

(***************************************************************************)
(* C11.  No step of analysis_pipeline changes a failed.csv that exists; a   *)
(* step that creates failed.csv is the end of a run in which at least one   *)
(* tile failed, taken when no failed.csv exists; the end of a run with no   *)
(* failed tile leaves the csv tables as they are.                           *)
(***************************************************************************)
RetryFile == csv["failed"]

EndsRun == pc = "loop" /\ pc' \in {"returned", "raised"}

C11_RetryFileKept ==
    [][/\ RetryFile # Missing => RetryFile' = RetryFile
       /\ RetryFile' # RetryFile =>
             (EndsRun /\ Len(failed) > 0 /\ RetryFile = Missing)
       /\ (EndsRun /\ Len(failed) = 0) => csv' = csv]_vars

\* a second run ended with failed tiles other than those of the retry file
C11_Witness ==
    /\ pc = "returned"
    /\ runs = 2
    /\ failed # <<>>
    /\ RetryFile.kind = "table"
    /\ Range(RetryFile.rows) \cap Range(failed) = {}

(***************************************************************************)
(* C12.  A step that writes failed.csv writes the ids of the tiles that     *)
(* failed in the run, in the order in which they failed, and no id of a     *)
(* tile that succeeded in the run.                                          *)
(***************************************************************************)
C12_RetryFileHoldsFailures ==
    [][RetryFile' # RetryFile =>
          /\ RetryFile'.kind = "table"
          /\ RetryFile'.rows = NamesOf(SelectSeq(attempts, TileFailed))
          /\ Range(RetryFile'.rows) \cap Range(succeeded) = {}]_vars

(***************************************************************************)
(* C13.  When a run has returned with at least one failed tile, the next    *)
(* run with todo = 'failed' selects exactly the tiles that failed in that   *)
(* run, whatever runs came before.                                          *)
(***************************************************************************)
C13_RetryProcessesLastFailures ==
    [][(pc = "returned" /\ failed # <<>> /\ pc' = "loop" /\ todo' = "failed")
          => SelectedTiles' = Range(failed)]_vars

(***************************************************************************)
(* C14.  With redo_if_already_processed off, an iteration on a tile that    *)
(* has a results file runs no detection, leaves the results files as they   *)
(* are and appends the tile to the succeeded list.                          *)
(***************************************************************************)
CurrentTile == coord_df[total[done + 1]]

HasResults(res, filename) == \E x \in Formats : res[<<filename, x>>] # NoFile

IteratesLoop == pc = "loop" /\ done' = done + 1

C14_SkipWhenProcessed ==
    [][(IteratesLoop /\ ~settings.redo /\ HasResults(results, CurrentTile)) =>
          /\ ~attempts'[done'].detected
          /\ results' = results
          /\ succeeded' = Append(succeeded, CurrentTile)]_vars

(***************************************************************************)
(* C15.  With an api in use whose service type is not 'WebMapService',      *)
(* every call of analysis_pipeline raises before its loop: no iteration is  *)
(* made, and no raster file, result file or retry file exists.  The         *)
(* ValueError is raised only if such an api is in use.                      *)
(***************************************************************************)
UnsupportedInUse(sett) ==
    \E l \in Layers : sett.api[l].use /\ ~IsWms(sett, l)

C15_UnsupportedTypeFailsFast ==
    /\ (runs > 0 /\ UnsupportedInUse(settings)) =>
          /\ pc = "raised"
          /\ error \in {"ValueError", "ServiceException"}
          /\ total = <<>> /\ attempts = <<>>
          /\ succeeded = <<>> /\ failed = <<>>
          /\ \A p \in DOMAIN cache : cache[p] = NoFile
          /\ \A p \in DOMAIN results : results[p] = NoFile
          /\ RetryFile = Missing
    /\ error = "ValueError" => (pc = "raised" /\ UnsupportedInUse(settings))

\* the second api is the unsupported one, the client of the first was made
C15_Witness ==
    /\ runs = 2
    /\ pc = "raised"
    /\ error = "ValueError"
    /\ settings.api["rgb"] = [use |-> TRUE, servicetype |-> "WebMapService"]
    /\ settings.api["nir"] = [use |-> TRUE, servicetype |-> "WebCoverageService"]

Tiled == tiling.pc = "done"

RegionBox == tiling.bbox_checked

BoxIn(a, b) == b[1] <= a[1] /\ a[3] <= b[3] /\ b[2] <= a[2] /\ a[4] <= b[4]

\* the cuts of [lo, hi] at the tile edges: the pieces between two
\* neighbouring cut points, or the one point if lo = hi
Pieces(lo, hi, edges) ==
    LET cuts == {lo, hi} \cup {e \in edges : lo <= e /\ e <= hi} IN
    {p \in cuts \X cuts :
        /\ IF lo = hi THEN p[1] = p[2] ELSE p[1] < p[2]
        /\ ~\E c \in cuts : p[1] < c /\ c < p[2]}

\* every piece of the box lies in one of the tiles
Covers(tiles, box) ==
    LET lonEdges == {tiles[k].lon_min : k \in 1..Len(tiles)}
                       \cup {tiles[k].lon_max : k \in 1..Len(tiles)}
        latEdges == {tiles[k].lat_min : k \in 1..Len(tiles)}
                       \cup {tiles[k].lat_max : k \in 1..Len(tiles)}
    IN  \A x \in Pieces(box[1], box[3], lonEdges), y \in Pieces(box[2], box[4], latEdges) :
           \E k \in 1..Len(tiles) : BoxIn(<<x[1], y[1], x[2], y[2]>>, TileBox(tiles[k]))

C17_TilesCoverRegion ==
    Tiled =>
        /\ Covers(tiling.coord_df, RegionBox)
        /\ BoxIn(RegionBox, tiling.total_bounding_box)

(***************************************************************************)
(* C18.  cut_up_bbox returns steps_horizontal x steps_vertical tiles, all   *)
(* rows of column 0 first, then column 1, and so on: the tile at position   *)
(* k (from 0) is in column k div steps_vertical and row k mod               *)
(* steps_vertical, its filename is '{col}_{row}', and no two tiles have the *)
(* same filename.                                                           *)
(***************************************************************************)
StepsH == steps_horizontal_of(RegionBox, tiling.im_size_out, tiling.pixel_size)
StepsV == steps_vertical_of(RegionBox, tiling.im_size_out, tiling.pixel_size)

C18_ColumnMajorGrid ==
    Tiled =>
        LET df == tiling.coord_df IN
        /\ Len(df) = StepsH * StepsV
        /\ \A k \in 0..(Len(df) - 1) :
              LET col == k \div StepsV
                  row == k % StepsV
                  t == df[k + 1]
              IN  /\ t.filename = str(col) \o "_" \o str(row)
                  /\ t.lon_min = RegionBox[1] + col * (t.lon_max - t.lon_min)
                  /\ t.lat_min = RegionBox[2] + row * (t.lat_max - t.lat_min)
        /\ \A k, m \in 1..Len(df) : k # m => df[k].filename # df[m].filename

\* twelve columns of four rows
C18_Witness ==
    /\ Tiled
    /\ StepsH = 12 /\ StepsV = 4
    /\ tiling.coord_df[48].filename = "11_3"
    /\ tiling.coord_df[5].filename = "1_0"

(***************************************************************************)
(* C20.  check_bbox returns a box with lon1 <= lon2 and lat1 <= lat2 that   *)
(* holds the two longitudes and the two latitudes of its argument, and      *)
(* check_bbox of that box is the box itself.                                *)
(***************************************************************************)
SamePair(a1, a2, b1, b2) == (a1 = b1 /\ a2 = b2) \/ (a1 = b2 /\ a2 = b1)

C20_CheckBboxNormalises ==
    Tiled =>
        LET b == tiling.bbox_img
            c == tiling.bbox_checked
        IN  /\ c[1] <= c[3] /\ c[2] <= c[4]
            /\ SamePair(c[1], c[3], b[1], b[3])
            /\ SamePair(c[2], c[4], b[2], b[4])
            /\ check_bbox(c) = c

\* both pairs of the argument were the wrong way round
C20_Witness ==
    /\ Tiled
    /\ tiling.bbox_img[3] < tiling.bbox_img[1]
    /\ tiling.bbox_img[4] < tiling.bbox_img[2]
    /\ tiling.bbox_checked # tiling.bbox_img

(***************************************************************************)
(* C23.  The status load_data returns is 'loaded' or 'load_fail', whatever  *)
(* the caching switch, the cache and the outcome of the disk read, of the   *)
(* requests and of the save.                                                *)
(***************************************************************************)
C23_LoadedOrLoadFail ==
    lastLoad.filename # None => lastLoad.status \in {"loaded", "load_fail"}

(***************************************************************************)
(* C24.  When load_data returns 'loaded' after it requested the rasters    *)
(* with caching on, the cache holds, as the call returns, the fetched       *)
(* raster of every layer in use for that tile.                              *)
(***************************************************************************)
FetchedAndLoaded ==
    /\ lastLoad.filename # None
    /\ settings.save_wms
    /\ ~lastLoad.disk
    /\ lastLoad.status = "loaded"

C24_LoadedMeansStored ==
    FetchedAndLoaded =>
        \A l \in EnabledSet(settings) :
            /\ cache[<<l, lastLoad.filename>>] # NoFile
            /\ cache[<<l, lastLoad.filename>>] = lastLoad.fetched[l]

C24_Witness ==
    /\ FetchedAndLoaded
    /\ Cardinality(EnabledSet(settings)) = 2
    /\ lastLoad.cachedLayers = {}
    /\ \A l \in Layers : cache[<<l, lastLoad.filename>>] # NoFile

(***************************************************************************)
(* C25.  load_data reads the disk cache only when caching is on and every   *)
(* layer in use has a cached file for the tile.  Otherwise it reads no      *)
(* cached file: every raster it returns was requested from the source of    *)
(* its layer in this call, and a call that returns 'loaded' requested every *)
(* layer in use.                                                            *)
(***************************************************************************)
AllFromSources(ld) ==
    /\ DOMAIN ld.images = EnabledSet(settings)
    /\ ld.getmap = EnabledSet(settings)
    /\ \A l \in DOMAIN ld.images : ld.images[l] = ld.fetched[l]

C25_DiskOrSourcesNeverMixed ==
    lastLoad.filename # None =>
        /\ lastLoad.disk =>
              /\ settings.save_wms
              /\ EnabledSet(settings) \subseteq lastLoad.cachedLayers
              /\ lastLoad.getmap = {}
        /\ (~settings.save_wms \/ ~(EnabledSet(settings) \subseteq lastLoad.cachedLayers)) =>
              /\ ~lastLoad.disk
              /\ lastLoad.status = "loaded" => AllFromSources(lastLoad)
              /\ lastLoad.images # EmptyDict => AllFromSources(lastLoad)

\* one of two layers in use was cached before the call, both were requested
C25_Witness ==
    /\ lastLoad.filename # None
    /\ settings.save_wms
    /\ Cardinality(EnabledSet(settings)) = 2
    /\ Cardinality(lastLoad.cachedLayers) = 1
    /\ lastLoad.status = "loaded"
    /\ lastLoad.getmap = EnabledSet(settings)

(***************************************************************************)
(* C26.  In a run the analysis method is invoked at most once for a tile,   *)
(* and only in an iteration whose load_data returned 'loaded' for that      *)
(* tile; an iteration whose load_data returned another status does not      *)
(* invoke it and records the tile as failed.                                *)
(***************************************************************************)
AnalysedIterations(f) ==
    {i \in 1..Len(attempts) : attempts[i].filename = f /\ attempts[i].analysed}

C26_AnalysedOnceAfterLoaded ==
    /\ \A i \in 1..Len(attempts) :
          /\ attempts[i].analysed => attempts[i].load = "loaded"
          /\ attempts[i].load # "loaded" =>
                /\ ~attempts[i].analysed
                /\ attempts[i].filename \in Range(failed)
    /\ \A f \in Filenames : Cardinality(AnalysedIterations(f)) <= 1

(***************************************************************************)
(* C27.  A run that entered its loop ends (it returns or raises) with every *)
(* selected tile in the succeeded or in the failed list; a tile that is in  *)
(* one of the two lists is never put in the other; and the loop makes one   *)
(* iteration for each selected tile and no more.                            *)
(***************************************************************************)
Ended == pc \in {"returned", "raised"}

Outcome(f, s, x) ==
    IF f \in Range(s) /\ f \in Range(x) THEN "both"
    ELSE IF f \in Range(s) THEN "succeeded"
    ELSE IF f \in Range(x) THEN "failed"
    ELSE None

OutcomesKept ==
    \A f \in Filenames :
        (pc = "loop" /\ Outcome(f, succeeded, failed) # None)
            => Outcome(f, succeeded', failed') = Outcome(f, succeeded, failed)

C27_OnePassEveryTileEnds ==
    /\ (pc = "loop") ~> (Ended /\ SelectedTiles \subseteq Range(succeeded) \cup Range(failed))
    /\ [][OutcomesKept]_vars
    /\ [](InRun => Len(attempts) <= Cardinality(SelectedTiles))

(***************************************************************************)
(* C21.  settings.yml and coord.csv of a session folder are written once:   *)
(* no step, of initialize_analysis or of analysis_pipeline, changes a file  *)
(* of a folder that exists; a call of initialize_analysis with the box and  *)
(* the settings of an earlier call resolves to the folder of that call and  *)
(* makes no new one.                                                        *)
(***************************************************************************)
Folders == DOMAIN sessions

FilesOf(disk, k) == <<disk[k].settings_yml, disk[k].coord_csv>>

FilesKept == \A k \in Folders : k \in DOMAIN sessions' /\ FilesOf(sessions', k) = FilesOf(sessions, k)

C21_WrittenOnce ==
    /\ [][FilesKept]_vars
    /\ [](\A k \in Folders :
            /\ sessions[k].settings_yml.writes = 1
            /\ sessions[k].coord_csv.writes = 1
            /\ \A j \in Folders : j # k => sessions[j].calls \cap sessions[k].calls = {})

\* a second call for a folder, and a run of the pipeline since
C21_Witness ==
    /\ tiling.calls = MaxInits
    /\ Cardinality(Folders) = 2
    /\ pc = "returned"
    /\ \E k \in Folders : sessions[k].coord_csv.writes = 1 /\ Cardinality(sessions[k].calls) = 1

(***************************************************************************)
(* C22.  calculate_ndvi(nir, red) lies in [-1, 1] for every pair of finite  *)
(* inputs with nir + red # 0.                                               *)
(***************************************************************************)
NdviDone == detect.fn = "calculate_ndvi" /\ detect.pc = "done"

NdviNir == detect.args[1]
NdviRed == detect.args[2]

InUnitRange(r) == r.finite /\ Le(Float(-1), r.value) /\ Le(r.value, Float(1))

C22_NdviInRange ==
    (NdviDone /\ ~Eq(Sum(NdviNir, NdviRed), Float(0))) => InUnitRange(detect.result)

(***************************************************************************)
(* C22, amended.  calculate_ndvi(nir, red) lies in [-1, 1] for every pair   *)
(* of finite inputs that are not negative and have nir + red # 0.           *)
(***************************************************************************)
C22_NdviInRangeNonNegative ==
    (/\ NdviDone
     /\ Le(Float(0), NdviNir)
     /\ Le(Float(0), NdviRed)
     /\ ~Eq(Sum(NdviNir, NdviRed), Float(0))) => InUnitRange(detect.result)

\* a quotient that is rounded, and the two ends of the range
C22_Witness ==
    /\ NdviDone
    /\ NdviNir = Float(1) /\ NdviRed = Float(2)
    /\ detect.result.finite
    /\ detect.result.value # <<-1, 3>>
    /\ Lt(Float(-1), detect.result.value)

(***************************************************************************)
(* C30.  The number of scales passed to the blob detector is                *)
(* floor((maxrad - minrad) / steprad), whatever the pixel size.             *)
(***************************************************************************)
ScalesDone == detect.fn = "scale_count" /\ detect.pc = "done"

C30_ScalesIndependentOfPixelSize ==
    ScalesDone =>
        LET minrad == detect.args[1]
            maxrad == detect.args[2]
            steprad == detect.args[3]
        IN  detect.result.nscales = Floor(Quotient(Difference(maxrad, minrad), steprad))

(***************************************************************************)
(* C29.  A detection at pixel (row r, col c) of an image with H rows is     *)
(* mapped to x = c, y = H - r before the geographic mapping; the latitude   *)
(* strictly decreases as r increases, a detection in row 0 is on the north  *)
(* edge of the tile (latMax), and every latitude is within                  *)
(* [latMin, latMax].                                                        *)
(***************************************************************************)
BlobsDone == detect.fn = "blob_coords" /\ detect.pc = "done"

C29_RowAxisInverted ==
    BlobsDone =>
        LET blobs == detect.args.blobs
            H == detect.args.rows
            latMin == detect.args.bbox[2]
            latMax == detect.args.bbox[4]
            lat(b) == detect.result.coords[b][2]
        IN  /\ \A b \in 1..Len(blobs) :
                  /\ detect.result.points[b] = <<blobs[b][2], H - blobs[b][1]>>
                  /\ blobs[b][1] = 0 => lat(b) = latMax
                  /\ latMin <= lat(b) /\ lat(b) <= latMax
            /\ \A a, b \in 1..Len(blobs) : blobs[a][1] < blobs[b][1] => lat(a) > lat(b)

(***************************************************************************)
(* C28.  The tiles of cut_up_bbox partition total_bounding_box: they cover  *)
(* it and no two of them overlap; tile (col, row) spans from the south-west *)
(* corner of total_bounding_box plus col and row whole steps to that point  *)
(* plus one step; its max edges are the min edges of tile (col + 1, row)    *)
(* and of tile (col, row + 1); and the north-east corner of the last tile   *)
(* is the north-east corner of total_bounding_box.                          *)
(***************************************************************************)
TotalBox == tiling.total_bounding_box

TileAt(col, row) == tiling.coord_df[col * StepsV + row + 1]

Overlap(a, b) == a[1] < b[3] /\ b[1] < a[3] /\ a[2] < b[4] /\ b[2] < a[4]

GridOnSteps ==
    LET df == tiling.coord_df
        step_lon == (TotalBox[3] - TotalBox[1]) \div StepsH
        step_lat == (TotalBox[4] - TotalBox[2]) \div StepsV
    IN  /\ step_lon * StepsH = TotalBox[3] - TotalBox[1]
        /\ step_lat * StepsV = TotalBox[4] - TotalBox[2]
        /\ \A col \in 0..(StepsH - 1), row \in 0..(StepsV - 1) :
              LET t == TileAt(col, row) IN
              /\ TileBox(t) = <<TotalBox[1] + col * step_lon,
                                TotalBox[2] + row * step_lat,
                                TotalBox[1] + col * step_lon + step_lon,
                                TotalBox[2] + row * step_lat + step_lat>>
              /\ col + 1 < StepsH => t.lon_max = TileAt(col + 1, row).lon_min
              /\ row + 1 < StepsV => t.lat_max = TileAt(col, row + 1).lat_min
        /\ <<df[Len(df)].lon_max, df[Len(df)].lat_max>> = <<TotalBox[3], TotalBox[4]>>

C28_TilesPartitionTotalBox ==
    Tiled =>
        /\ Covers(tiling.coord_df, TotalBox)
        /\ \A k, m \in 1..Len(tiling.coord_df) :
              k # m => ~Overlap(TileBox(tiling.coord_df[k]), TileBox(tiling.coord_df[m]))
        /\ Len(tiling.coord_df) > 0 /\ GridOnSteps

(***************************************************************************)
(* C35.  Once scale_space_tree_detect has saved a result file for a tile, a *)
(* later call for the tile with redo_if_already_processed off returns None  *)
(* without running the detection and leaves the file, whatever the          *)
(* output_file_format.                                                      *)
(***************************************************************************)
SavedResult(filename) == results[<<filename, settings.output_file_format>>] # NoFile

C35_SavedResultIsFound ==
    [][(/\ IteratesLoop
        /\ ~settings.redo
        /\ settings.save_results
        /\ SavedResult(CurrentTile)
        /\ attempts'[done'].analysed) =>
          /\ ~attempts'[done'].detected
          /\ ~attempts'[done'].raised
          /\ results' = results]_vars

(***************************************************************************)
(* C33.  With save_wms_data_to_hard_drive off, load_data never reads and    *)
(* never writes a raster cache file: every call goes to the raster sources  *)
(* (the layers in use are requested in order, all of them unless a request  *)
(* fails, and every raster returned is the one its source answered), and    *)
(* the cache files are the same after the call as before it, whether the    *)
(* call ends 'loaded' or 'load_fail'.                                       *)
(***************************************************************************)
RequestedInOrder(ld) ==
    LET keys == Enabled(settings)
        bad == FirstBad(keys, settings, ld.fetched)
    IN  /\ ld.status = "loaded" <=> bad = 0
        /\ \A i \in 1..Len(keys) :
              (bad = 0 \/ i < bad) => keys[i] \in ld.getmap

C33_NoCacheAccessWhenOff ==
    [][~settings.save_wms =>
          /\ cache' = cache
          /\ ~lastLoad'.disk
          /\ lastLoad'.status \in {"loaded", "load_fail"}
          /\ RequestedInOrder(lastLoad')
          /\ lastLoad'.status = "loaded" => AllFromSources(lastLoad')
          /\ lastLoad'.status = "load_fail" => lastLoad'.images = EmptyDict]_vars

\* caching is off, every layer in use has a file in the folders, and the
\* call requested the layers from their sources all the same
C33_Witness ==
    /\ lastLoad.filename # None
    /\ ~settings.save_wms
    /\ ~lastLoad.cached
    /\ Cardinality(EnabledSet(settings)) = 2
    /\ EnabledSet(settings) \subseteq lastLoad.cachedLayers
    /\ lastLoad.status = "loaded"
    /\ lastLoad.getmap = EnabledSet(settings)
    /\ \A l \in Layers : cache[<<l, lastLoad.filename>>] # NoFile

(***************************************************************************)
(* C32.  A call of initialize_analysis that fails on an invalid region (a   *)
(* box for which the tiling computation raises) fails before any persistent *)
(* state is made: no session folder, no settings.yml and no coord.csv is    *)
(* created or written by the call.                                          *)
(***************************************************************************)
InitializeRaised == tiling'.calls = tiling.calls + 1 /\ tiling'.pc = "raised"

C32_InvalidRegionLeavesNoTrace ==
    [][InitializeRaised =>
          /\ DOMAIN sessions' = DOMAIN sessions
          /\ \A k \in DOMAIN sessions : FilesOf(sessions', k) = FilesOf(sessions, k)
          /\ sessions' = sessions]_vars

\* a call on a region with a nan coordinate raised after an earlier call
\* had made a session folder, and nothing but that folder exists
C32_Witness ==
    /\ tiling.pc = "raised"
    /\ tiling.calls = 2
    /\ cut_up_bbox_raises(tiling.bbox_checked)
    /\ Cardinality(DOMAIN sessions) = 1
    /\ \A k \in DOMAIN sessions : \A b \in NanBoxes : k[2] # check_bbox(b)

(***************************************************************************)
(* C34.  Over any sequence of analysis_pipeline runs each followed by       *)
(* make_big_csv_file_from_results_folder, retry runs with todo = 'failed'   *)
(* among them, full.csv holds the rows of every tile whose result file an   *)
(* earlier aggregation put into it: no step takes rows out of full.csv.     *)
(***************************************************************************)
C34_AggregationKeepsRows ==
    [][/\ full.exists => full'.exists
       /\ full.rows \subseteq full'.rows]_vars

(***************************************************************************)
(* C31.  A step of the iteration of a tile reads and writes only the files  *)
(* keyed by that tile (its raster cache files and its result files), and    *)
(* the files of two tiles of one grid are different files; so when the      *)
(* steps of the iterations of distinct tiles are taken in any order, the    *)
(* files and the succeeded and failed sets they end with are those of the   *)
(* loop that runs the iterations one after another.                         *)
(***************************************************************************)
StepOf(f) == workers'.of[f] # workers.of[f]

OwnFilesOnly ==
    \A f \in DOMAIN workers.of : StepOf(f) =>
        /\ \A p \in DOMAIN cache : p[2] # f => cache'[p] = cache[p]
        /\ \A p \in DOMAIN results : p[1] # f => results'[p] = results[p]

WorkersDone == workers.active /\ \A f \in DOMAIN workers.of : workers.of[f].pc = "done"

AsSequential ==
    \E seq \in {sequential_run(WorkerTiles, workers.files.cache,
                               workers.files.results, workers.of)} :
        /\ cache = seq.cache
        /\ results = seq.results
        /\ Range(succeeded) = seq.succeeded
        /\ Range(failed) = seq.failed

C31_InterleavedAsSequential ==
    /\ [][OwnFilesOnly]_vars
    /\ [](WorkersDone => AsSequential)
    /\ [](\A i, j \in 1..Len(coord_df) : coord_df[i] = coord_df[j] => i = j)

\* the steps of two tiles overlapped; one tile ended in succeeded with its
\* rasters cached and its result file written, the other in failed
C31_Witness ==
    /\ WorkersDone
    /\ workers.overlapped
    /\ settings.save_wms
    /\ \E f, g \in DOMAIN workers.of :
          /\ f \in Range(succeeded)
          /\ g \in Range(failed)
          /\ \A l \in Layers : cache[<<l, f>>] # NoFile /\ workers.files.cache[<<l, f>>] = NoFile
          /\ results[<<f, settings.output_file_format>>] # NoFile
          /\ workers.files.results[<<f, "csv">>] = NoFile

====
